---- MODULE Spec2Model ----
(***************************************************************************)
(* Verification model of the batch-translation pipeline of                 *)
(* bitrix-llm-localization: the gap-fill engine (src/fill-gaps.ts), the    *)
(* token estimator and dynamic batcher (src/token-estimator.ts), the       *)
(* resumable orchestrator (scripts/translate.ts) and the translator        *)
(* (src/translator.ts).                                                    *)
(***************************************************************************)
EXTENDS Integers, Sequences, FiniteSets, TLC

(***************************************************************************)
(* Strings.  A string is a sequence of runs <<char, count>>; the empty     *)
(* string is <<>>.  null is a run sequence that no string can be.  The     *)
(* characters are " " (whitespace), Latin letters, one Cyrillic letter     *)
(* (named "cyr") and the placeholder signs.                                *)
(***************************************************************************)
Null == << <<"null", 0>> >>

Str(c, n) == << <<c, n>> >>

IsSpace(c) == c = " "

CyrillicChars == {"cyr"}

PlaceholderChars == {"#", "%", "{", "}", "<", ">"}

RECURSIVE StrLen(_)
StrLen(s) == IF s = <<>> THEN 0 ELSE Head(s)[2] + StrLen(Tail(s))

RECURSIVE TrimStart(_)
TrimStart(s) ==
  IF s = <<>> THEN <<>>
  ELSE IF IsSpace(Head(s)[1]) THEN TrimStart(Tail(s)) ELSE s

RECURSIVE TrimEnd(_)
TrimEnd(s) ==
  IF s = <<>> THEN <<>>
  ELSE IF IsSpace(s[Len(s)][1]) THEN TrimEnd(SubSeq(s, 1, Len(s) - 1)) ELSE s

Trim(s) == TrimEnd(TrimStart(s))

(***************************************************************************)
(* The snapshot: file -> key -> language -> (string | null).  Files and     *)
(* keys are iterated in the order of FilePaths and KeysOf; the languages   *)
(* of a key are iterated in the insertion order of its object, which the   *)
(* state keeps per key (langOrder) and which a write to a slot leaves as   *)
(* it is.  LangOrder is the order of an object built en, ru, tr.           *)
(***************************************************************************)
FilePaths == <<"f1", "f2">>

KeysOf == [f \in {"f1", "f2"} |-> IF f = "f1" THEN <<"k1", "k2">> ELSE <<"k3">>]

LangOrder == <<"en", "ru", "tr">>

Range(s) == {s[i] : i \in 1..Len(s)}

Files == Range(FilePaths)

Langs == Range(LangOrder)

RECURSIVE KeyPairsFrom(_)
KeyPairsFrom(fs) ==
  IF fs = <<>> THEN <<>>
  ELSE [i \in 1..Len(KeysOf[Head(fs)]) |-> <<Head(fs), KeysOf[Head(fs)][i]>>]
       \o KeyPairsFrom(Tail(fs))

KeyPairs == KeyPairsFrom(FilePaths)

Slots == {<<p[1], p[2], l>> : p \in Range(KeyPairs), l \in Langs}

(***************************************************************************)
(* src/fill-gaps.ts                                                        *)
(***************************************************************************)
normalizeSourceText(val) ==
  IF val = Null THEN Null
  ELSE IF Trim(val) = <<>> THEN Null ELSE Trim(val)

isMissing(val) == val = Null \/ Trim(val) = <<>>

isEmptyOrWhitespaceOnly(val) == IF val = Null THEN TRUE ELSE Trim(val) = <<>>

getSourceText(langs, order, sourceLang) ==
  LET primary == normalizeSourceText(IF sourceLang \in DOMAIN langs
                                     THEN langs[sourceLang] ELSE Null)
      nonEmpty == SelectSeq(order,
                            LAMBDA l : normalizeSourceText(langs[l]) # Null)
  IN IF primary # Null THEN primary
     ELSE IF nonEmpty # <<>> THEN normalizeSourceText(langs[Head(nonEmpty)])
     ELSE Null

DonorTranslations(langs) ==
  [l \in {m \in DOMAIN langs : ~isMissing(langs[m])} |-> langs[l]]

buildSourceTextIndex(d, ord, sourceLang) ==
  LET entryOf(p) == [text |-> getSourceText(d[p[1]][p[2]], ord[p], sourceLang),
                     filePath |-> p[1], key |-> p[2],
                     translations |-> DonorTranslations(d[p[1]][p[2]])]
      all == [i \in 1..Len(KeyPairs) |-> entryOf(KeyPairs[i])]
  IN SelectSeq(all, LAMBDA e : e.text # Null /\ DOMAIN e.translations # {})

IndexGet(index, text) == SelectSeq(index, LAMBDA e : e.text = text)

LastDonor(donors, lang) ==
  LET holding == SelectSeq(donors, LAMBDA e : lang \in DOMAIN e.translations)
  IN IF holding = <<>> THEN Null ELSE holding[Len(holding)].translations[lang]

FirstDonor(donors, lang) ==
  LET holding == SelectSeq(donors, LAMBDA e : lang \in DOMAIN e.translations)
  IN IF holding = <<>> THEN Null ELSE Head(holding).translations[lang]

DonorsFor(langs, order, index) ==
  LET sourceText == getSourceText(langs, order, "en")
  IN IF sourceText = Null THEN <<>> ELSE IndexGet(index, sourceText)

fillGapsTargetsNoGuard(langs, order, index) ==
  LET donors == DonorsFor(langs, order, index)
  IN {l \in DOMAIN langs : FirstDonor(donors, l) # Null}

fillGapsTargets(langs, order, index) ==
  LET donors == DonorsFor(langs, order, index)
  IN {l \in DOMAIN langs : isMissing(langs[l]) /\ FirstDonor(donors, l) # Null}

fillGapsKey(langs, order, index) ==
  LET donors == DonorsFor(langs, order, index)
      targets == fillGapsTargets(langs, order, index)
  IN [l \in DOMAIN langs |->
        IF l \in targets THEN FirstDonor(donors, l) ELSE langs[l]]

RECURSIVE SumSeq(_)
SumSeq(ns) == IF ns = <<>> THEN 0 ELSE Head(ns) + SumSeq(Tail(ns))

fillGaps(d, ord, index) ==
  [data |-> [f \in DOMAIN d |->
               [k \in DOMAIN d[f] |-> fillGapsKey(d[f][k], ord[<<f, k>>], index)]],
   substitutions |->
     SumSeq([i \in 1..Len(KeyPairs) |->
               Cardinality(fillGapsTargets(d[KeyPairs[i][1]][KeyPairs[i][2]],
                                           ord[KeyPairs[i]], index))])]

OneSpace == Str(" ", 1)

hasRealValue(langs) == \E l \in DOMAIN langs : ~isEmptyOrWhitespaceOnly(langs[l])

fillAllNullCountingEverySlot(d) ==
  [data |-> [f \in DOMAIN d |-> [k \in DOMAIN d[f] |->
               IF hasRealValue(d[f][k]) THEN d[f][k]
               ELSE [l \in DOMAIN d[f][k] |-> OneSpace]]],
   substitutions |->
     SumSeq([i \in 1..Len(KeyPairs) |->
               LET langs == d[KeyPairs[i][1]][KeyPairs[i][2]]
               IN IF hasRealValue(langs) THEN 0 ELSE Cardinality(DOMAIN langs)])]

fillAllNullOrWhitespaceOnlyKeys(d) ==
  [data |-> [f \in DOMAIN d |-> [k \in DOMAIN d[f] |->
               IF hasRealValue(d[f][k]) THEN d[f][k]
               ELSE [l \in DOMAIN d[f][k] |-> OneSpace]]],
   substitutions |->
     SumSeq([i \in 1..Len(KeyPairs) |->
               LET langs == d[KeyPairs[i][1]][KeyPairs[i][2]]
               IN IF hasRealValue(langs) THEN 0
                  ELSE Cardinality({l \in DOMAIN langs : langs[l] # OneSpace})])]

fillUniformValuesTargetsSingle(langs) ==
  LET existing == SelectSeq(LangOrder, LAMBDA l : ~isMissing(langs[l]))
      missingLangs == {l \in DOMAIN langs : isMissing(langs[l])}
  IN IF missingLangs = {} THEN {}
     ELSE IF existing = <<>> THEN {}
     ELSE IF \E i \in 1..Len(existing) : langs[existing[i]] # langs[existing[1]] THEN {}
     ELSE missingLangs

fillUniformValuesTargets(langs) ==
  LET existing == SelectSeq(LangOrder, LAMBDA l : ~isMissing(langs[l]))
      missingLangs == {l \in DOMAIN langs : isMissing(langs[l])}
  IN IF missingLangs = {} THEN {}
     ELSE IF existing = <<>> THEN {}
     ELSE IF \E i \in 1..Len(existing) : langs[existing[i]] # langs[existing[1]] THEN {}
     ELSE IF Len(existing) < 2 THEN {}
     ELSE missingLangs

fillUniformValuesKey(langs) ==
  LET targets == fillUniformValuesTargets(langs)
      existing == SelectSeq(LangOrder, LAMBDA l : ~isMissing(langs[l]))
  IN IF targets = {} THEN langs
     ELSE [l \in DOMAIN langs |-> IF l \in targets THEN langs[existing[1]] ELSE langs[l]]

fillUniformValues(d) ==
  [data |-> [f \in DOMAIN d |-> [k \in DOMAIN d[f] |-> fillUniformValuesKey(d[f][k])]],
   substitutions |->
     SumSeq([i \in 1..Len(KeyPairs) |->
               Cardinality(fillUniformValuesTargets(d[KeyPairs[i][1]][KeyPairs[i][2]]))])]

(***************************************************************************)
(* src/token-estimator.ts.  The multipliers 1.8 and 1.2 are applied in     *)
(* exact arithmetic (tenths) before the ceiling.                           *)
(***************************************************************************)
CeilDiv(a, b) == (a + b - 1) \div b

RECURSIVE CountChars(_, _)
CountChars(s, class) ==
  IF s = <<>> THEN 0
  ELSE (IF Head(s)[1] \in class THEN Head(s)[2] ELSE 0) + CountChars(Tail(s), class)

estimateTokens(text) ==
  IF text = <<>> THEN 0
  ELSE LET cyrillicTwice == 2 * CountChars(text, CyrillicChars)
           hasPlaceholders == CountChars(text, PlaceholderChars) > 0
           charsPerToken == IF cyrillicTwice > StrLen(text) THEN 3
                            ELSE IF hasPlaceholders THEN 5 ELSE 4
       IN CeilDiv(StrLen(text), charsPerToken)

\* The text of a file path or key name of the model: two Latin characters.
NameStr(name) == Str("n", 2)

RECURSIVE SumTokens(_, _)
SumTokens(context, ls) ==
  IF ls = {} THEN 0
  ELSE LET l == CHOOSE m \in ls : TRUE
       IN estimateTokens(context[l]) + SumTokens(context, ls \ {l})

ContextTokens(item) == SumTokens(item.context, DOMAIN item.context)

estimateItemTokens(item) ==
  CeilDiv((estimateTokens(NameStr(item.key)) + estimateTokens(NameStr(item.fileName))
           + ContextTokens(item)) * 18, 10)

SYSTEM_PROMPT_TOKENS == 200

RESPONSE_OVERHEAD_PER_ITEM == 30

MAX_BATCH_ITEMS == 50

estimateResponseTokens(its) ==
  CeilDiv(SumSeq([i \in 1..Len(its) |->
                    ContextTokens(its[i]) * Len(its[i].targets) * 12
                    + RESPONSE_OVERHEAD_PER_ITEM * Len(its[i].targets) * 10]), 10)

wouldExceedResponseStale(currentBatch, item, maxResponseTokens) ==
  estimateResponseTokens(currentBatch) > maxResponseTokens

wouldExceedResponse(currentBatch, item, maxResponseTokens) ==
  estimateResponseTokens(Append(currentBatch, item)) > maxResponseTokens

wouldExceedPromptNever(potentialPromptTokens, maxPromptTokens) == FALSE

wouldExceedPromptAlways(potentialPromptTokens, maxPromptTokens) == TRUE

wouldExceedPrompt(potentialPromptTokens, maxPromptTokens) ==
  potentialPromptTokens > maxPromptTokens

wouldExceedHardCapLate(currentBatch) == Len(currentBatch) > MAX_BATCH_ITEMS

wouldExceedHardCap(currentBatch) == Len(currentBatch) >= MAX_BATCH_ITEMS

RECURSIVE BatchLoop(_, _, _, _, _, _)
BatchLoop(rest, done, currentBatch, currentPromptTokens, maxPromptTokens, maxResponseTokens) ==
  IF rest = <<>>
  THEN IF Len(currentBatch) > 0 THEN Append(done, currentBatch) ELSE done
  ELSE LET item == Head(rest)
           itemTokens == estimateItemTokens(item)
           potentialPromptTokens == currentPromptTokens + itemTokens
       IN IF /\ Len(currentBatch) > 0
             /\ \/ wouldExceedPrompt(potentialPromptTokens, maxPromptTokens)
                \/ wouldExceedResponse(currentBatch, item, maxResponseTokens)
                \/ wouldExceedHardCap(currentBatch)
          THEN BatchLoop(Tail(rest), Append(done, currentBatch), <<item>>,
                         SYSTEM_PROMPT_TOKENS + itemTokens,
                         maxPromptTokens, maxResponseTokens)
          ELSE BatchLoop(Tail(rest), done, Append(currentBatch, item),
                         potentialPromptTokens, maxPromptTokens, maxResponseTokens)

buildDynamicBatchesSkippingOversized(its, maxPromptTokens, maxResponseTokens) ==
  BatchLoop(SelectSeq(its, LAMBDA item :
                        estimateResponseTokens(<<item>>) <= maxResponseTokens),
            <<>>, <<>>, SYSTEM_PROMPT_TOKENS, maxPromptTokens, maxResponseTokens)

buildDynamicBatches(its, maxPromptTokens, maxResponseTokens) ==
  BatchLoop(its, <<>>, <<>>, SYSTEM_PROMPT_TOKENS, maxPromptTokens, maxResponseTokens)

(***************************************************************************)
(* scripts/translate.ts: the pure parts of the orchestrator.               *)
(***************************************************************************)
hasValidTranslationValue(val) == val # Null /\ Trim(val) # <<>>

isSlotFillable(val) ==
  IF val = Null \/ val = <<>> THEN TRUE
  ELSE StrLen(val) > 0 /\ StrLen(Trim(val)) = 0

MAX_KEY_LENGTH == 2048

COPY_PRIORITY == <<"en", "ru">>

existingLangsOf(langs) ==
  [l \in {m \in DOMAIN langs : hasValidTranslationValue(langs[m])} |-> langs[l]]

hasHugeValuesNever(existingLangs) == FALSE

\* Lines 155 and 210.
hasHugeValues(existingLangs) ==
  \E l \in DOMAIN existingLangs : StrLen(existingLangs[l]) > MAX_KEY_LENGTH

missingTargetsOfEveryRequired(existingLangs, requiredLangs) == requiredLangs

\* Lines 212 and 228.
missingTargetsOf(existingLangs, requiredLangs) ==
  SelectSeq(requiredLangs, LAMBDA l : l \notin DOMAIN existingLangs)

getCopySourceFirstAvailable(existingLangs, order) ==
  LET any == SelectSeq(order, LAMBDA l : l \in DOMAIN existingLangs)
  IN IF any # <<>> THEN existingLangs[Head(any)] ELSE Null

\* Lines 19-25, for an object whose languages are iterated in the given order.
getCopySourceForLongKeyIn(existingLangs, order) ==
  LET preferred == SelectSeq(COPY_PRIORITY, LAMBDA l : l \in DOMAIN existingLangs)
      any == SelectSeq(order, LAMBDA l : l \in DOMAIN existingLangs)
  IN IF preferred # <<>> THEN existingLangs[Head(preferred)]
     ELSE IF any # <<>> THEN existingLangs[Head(any)]
     ELSE Null

getCopySourceForLongKey(existingLangs) == getCopySourceForLongKeyIn(existingLangs, LangOrder)

\* One iteration of the scan loop, for a key whose languages are iterated in
\* the given order: the key's values after a long-key copy, the item to
\* translate (or none) and whether a copy was made.  The assignment of a
\* copy creates the property of a language the key does not have.
ScanKeyIn(f, key, langs, requiredLangs, order) ==
  LET existingLangs == existingLangsOf(langs)
      missingTargets == missingTargetsOf(existingLangs, requiredLangs)
      source == getCopySourceForLongKeyIn(existingLangs, order)
  IN IF DOMAIN existingLangs = {}
     THEN [langs |-> langs, item |-> <<>>, copied |-> FALSE]
     ELSE IF hasHugeValues(existingLangs)
     THEN IF Len(missingTargets) > 0 /\ source # Null
          THEN [langs |-> [l \in DOMAIN langs \cup Range(missingTargets) |->
                             IF l \in Range(missingTargets) THEN source ELSE langs[l]],
                item |-> <<>>, copied |-> TRUE]
          ELSE [langs |-> langs, item |-> <<>>, copied |-> FALSE]
     ELSE IF Len(missingTargets) > 0
     THEN [langs |-> langs,
           item |-> <<[key |-> key, fileName |-> f, context |-> existingLangs,
                       targets |-> missingTargets]>>,
           copied |-> FALSE]
     ELSE [langs |-> langs, item |-> <<>>, copied |-> FALSE]

ScanKey(f, key, langs, requiredLangs) == ScanKeyIn(f, key, langs, requiredLangs, LangOrder)

RECURSIVE ConcatAll(_)
ConcatAll(ss) == IF ss = <<>> THEN <<>> ELSE Head(ss) \o ConcatAll(Tail(ss))

ScanFile(d, f, requiredLangs) ==
  LET scan(k) == ScanKey(f, k, d[f][k], requiredLangs)
  IN [data |-> [d EXCEPT ![f] = [k \in DOMAIN d[f] |-> scan(k).langs]],
      itemsToTranslate |-> ConcatAll([i \in 1..Len(KeysOf[f]) |-> scan(KeysOf[f][i]).item]),
      fileHadCopies |-> \E k \in DOMAIN d[f] : scan(k).copied]

\* The pre-scan's hasWork of one file.
hasWork(keys, requiredLangs) ==
  \E k \in DOMAIN keys :
    LET existing == existingLangsOf(keys[k])
    IN /\ DOMAIN existing # {}
       /\ ~hasHugeValues(existing)
       /\ \E i \in 1..Len(requiredLangs) : requiredLangs[i] \notin DOMAIN existing

filesNeedWork(d, requiredLangs) ==
  Cardinality({f \in DOMAIN d : hasWork(d[f], requiredLangs)})

\* Lines 148-160: the pre-scan's count of the keys with missing languages.
totalMissingKeys(d, requiredLangs) ==
  Cardinality({p \in Range(KeyPairs) :
                 LET existingLangs == existingLangsOf(d[p[1]][p[2]])
                 IN /\ DOMAIN existingLangs # {}
                    /\ ~hasHugeValues(existingLangs)
                    /\ Len(missingTargetsOf(existingLangs, requiredLangs)) > 0})

\* The apply loop over the results of one oracle call: the entries it writes.
\* guarded is the revision of the loop that tests isSlotFillable first.
\* The names every object built by JSON.parse inherits from Object.prototype;
\* the model has one of them.
InheritedNames == {"constructor"}

\* Line 282: localizationData[filePath][key] is looked up and tested for
\* truth; the lookup finds the file's own keys and the inherited names.
keyFound(keys, key) == key \in DOMAIN keys \/ key \in InheritedNames

\* What the lookup of a language gives in the object found: the slot of an
\* own key; nothing on the inherited function object.
currentOf(keys, key, lang) == IF key \in DOMAIN keys THEN keys[key][lang] ELSE Null

AppliedEntriesAnyValue(d, f, results, guarded) ==
  {e \in {<<k, l>> : k \in DOMAIN results, l \in Langs} :
     /\ keyFound(d[f], e[1])
     /\ e[2] \in DOMAIN results[e[1]]
     /\ guarded => isSlotFillable(currentOf(d[f], e[1], e[2]))}

AppliedEntries(d, f, results, guarded) ==
  {e \in {<<k, l>> : k \in DOMAIN results, l \in Langs} :
     /\ keyFound(d[f], e[1])
     /\ e[2] \in DOMAIN results[e[1]]
     /\ hasValidTranslationValue(results[e[1]][e[2]])
     /\ guarded => isSlotFillable(currentOf(d[f], e[1], e[2]))}

ResultEntries(results) ==
  {e \in {<<k, l>> : k \in DOMAIN results, l \in Langs} : e[2] \in DOMAIN results[e[1]]}

ApplyResults(d, f, results, guarded) ==
  LET applied == AppliedEntries(d, f, results, guarded)
  IN [data |-> [d EXCEPT ![f] = [k \in DOMAIN d[f] |-> [l \in DOMAIN d[f][k] |->
                   IF <<k, l>> \in applied THEN results[k][l] ELSE d[f][k][l]]]],
      appliedCount |-> Cardinality(applied),
      skippedCount |-> Cardinality(ResultEntries(results) \ applied)]

(***************************************************************************)
(* src/translator.ts seen from the orchestrator: one call of               *)
(* translateFileBatch either throws or returns key -> lang -> text.  The   *)
(* oracle's answer is one of a few shapes.                                 *)
(***************************************************************************)
OracleText == Str("cyr", 6)

UnknownKey == "kx"

\* A text of the oracle that is longer than the ceiling for a value.
LongAnswer == Str("cyr", MAX_KEY_LENGTH + 1)

ResponseKinds ==
  {"throw", "failFirst", "full", "partial", "long", "empty", "blank", "extra", "unknown",
   "mixed", "inherited"}

\* The keys of the other files.
OtherFileKeys(f) == UNION {Range(KeysOf[g]) : g \in Files \ {f}}

BatchKeys(batch) == {batch[i].key : i \in 1..Len(batch)}

ItemOf(batch, key) == batch[CHOOSE i \in 1..Len(batch) : batch[i].key = key]

NoResults == [k \in {} |-> <<>>]

\* What the oracle answers to a prompt carrying these items.
OracleAnswer(batch, kind) ==
  IF kind = "full"
  THEN [k \in BatchKeys(batch) |-> [l \in Range(ItemOf(batch, k).targets) |-> OracleText]]
  ELSE IF kind = "blank"
  THEN [k \in BatchKeys(batch) |-> [l \in Range(ItemOf(batch, k).targets) |-> OneSpace]]
  ELSE IF kind = "extra"
  THEN [k \in BatchKeys(batch) |-> [l \in Langs |-> OracleText]]
  ELSE IF kind = "partial"
  THEN [k \in {batch[1].key} |-> [l \in {batch[1].targets[1]} |-> OracleText]]
  ELSE IF kind = "long"
  THEN [k \in {batch[1].key} |-> [l \in {batch[1].targets[1]} |-> LongAnswer]]
  ELSE IF kind = "unknown"
  THEN [k \in {UnknownKey} \cup OtherFileKeys(batch[1].fileName) |->
          [l \in {batch[1].targets[1]} |-> OracleText]]
  ELSE IF kind = "inherited"
  THEN [k \in InheritedNames |-> [l \in {batch[1].targets[1]} |-> OracleText]]
  ELSE IF kind = "mixed"
  THEN [k \in BatchKeys(batch) |->
          [l \in Range(ItemOf(batch, k).targets) |->
             IF k = batch[1].key /\ l = batch[1].targets[1] THEN <<>> ELSE OracleText]]
  ELSE NoResults

hasHugeKeys(its, maxResponseTokens) ==
  \E i \in 1..Len(its) : estimateResponseTokens(<<its[i]>>) * 2 > maxResponseTokens

\* Whether the n-th exchange of one translateFileBatch call fails (transport
\* error or unparsable text), and the shape of the answers that do arrive.
ExchangeFails(kind, n) == kind = "throw" \/ (kind = "failFirst" /\ n = 1)

AnswerKind(kind) == IF kind = "failFirst" THEN "full" ELSE kind

PosOf(seq, x) == CHOOSE j \in 1..Len(seq) : seq[j] = x

\* The number of the exchange for target j of item i in the per-language loop.
ExchangeNo(its, i, j) == SumSeq([m \in 1..(i - 1) |-> Len(its[m].targets)]) + j

translateHugeKeysStoppingAtFailure(its, kind) ==
  [k \in BatchKeys(its) |->
     LET i == PosOf([m \in 1..Len(its) |-> its[m].key], k)
         item == its[i]
         failedBefore(l) == \E n \in 1..ExchangeNo(its, i, PosOf(item.targets, l)) :
                              ExchangeFails(kind, n)
     IN [l \in {m \in Range(item.targets) : ~failedBefore(m)} |-> OracleText]]

\* Lines 99-133: one exchange per item and target language; a failed exchange
\* is logged and skipped, an answer without a text for the language too.
translateHugeKeysByLanguage(its, kind) ==
  [k \in BatchKeys(its) |->
     LET i == PosOf([m \in 1..Len(its) |-> its[m].key], k)
         item == its[i]
         got(l) == LET processed == OracleAnswer(<<[item EXCEPT !.targets = <<l>>]>>,
                                                 AnswerKind(kind))
                   IN IF /\ ~ExchangeFails(kind, ExchangeNo(its, i, PosOf(item.targets, l)))
                         /\ k \in DOMAIN processed
                         /\ l \in DOMAIN processed[k]
                         /\ processed[k][l] # <<>>
                      THEN processed[k][l] ELSE Null
     IN [l \in {m \in Range(item.targets) : got(m) # Null} |-> got(l)]]

\* Whether an answer holds a text for every target of every item.
AnswersEverything(its, results) ==
  \A i \in 1..Len(its) :
    /\ its[i].key \in DOMAIN results
    /\ Range(its[i].targets) \subseteq DOMAIN results[its[i].key]

\* The number of callLlm calls of the per-language loop: one per item and target.
TargetCount(its) == SumSeq([m \in 1..Len(its) |-> Len(its[m].targets)])

translateFileBatchStrict(its, kind, maxResponseTokens) ==
  IF Len(its) = 0 THEN [threw |-> FALSE, results |-> NoResults, exchanges |-> 0]
  ELSE IF hasHugeKeys(its, maxResponseTokens) /\ Len(its[1].targets) > 1
  THEN [threw |-> FALSE, results |-> translateHugeKeysByLanguage(its, kind),
        exchanges |-> TargetCount(its)]
  ELSE IF (ExchangeFails(kind, 1) /\ ExchangeFails(kind, 2))
          \/ ~AnswersEverything(its, OracleAnswer(its, AnswerKind(kind)))
  THEN [threw |-> TRUE, results |-> NoResults, exchanges |-> 2]
  ELSE [threw |-> FALSE, results |-> OracleAnswer(its, AnswerKind(kind)),
        exchanges |-> IF ExchangeFails(kind, 1) THEN 2 ELSE 1]

translateFileBatchRetryingTwice(its, kind, maxResponseTokens) ==
  IF Len(its) = 0 THEN [threw |-> FALSE, results |-> NoResults, exchanges |-> 0]
  ELSE IF hasHugeKeys(its, maxResponseTokens) /\ Len(its[1].targets) > 1
  THEN [threw |-> FALSE, results |-> translateHugeKeysByLanguage(its, kind),
        exchanges |-> TargetCount(its)]
  ELSE IF ExchangeFails(kind, 1) /\ ExchangeFails(kind, 2) /\ ExchangeFails(kind, 3)
  THEN [threw |-> TRUE, results |-> NoResults, exchanges |-> 3]
  ELSE [threw |-> FALSE, results |-> OracleAnswer(its, AnswerKind(kind)),
        exchanges |-> IF ExchangeFails(kind, 1) THEN 2 ELSE 1]

\* Lines 55-97: the empty list, the per-language mode, or one exchange that is
\* repeated once when it fails; with the number of callLlm calls made.
translateFileBatch(its, kind, maxResponseTokens) ==
  IF Len(its) = 0 THEN [threw |-> FALSE, results |-> NoResults, exchanges |-> 0]
  ELSE IF hasHugeKeys(its, maxResponseTokens) /\ Len(its[1].targets) > 1
  THEN [threw |-> FALSE, results |-> translateHugeKeysByLanguage(its, kind),
        exchanges |-> TargetCount(its)]
  ELSE IF ExchangeFails(kind, 1) /\ ExchangeFails(kind, 2)
  THEN [threw |-> TRUE, results |-> NoResults, exchanges |-> 2]
  ELSE [threw |-> FALSE, results |-> OracleAnswer(its, AnswerKind(kind)),
        exchanges |-> IF ExchangeFails(kind, 1) THEN 2 ELSE 1]

maxRetries == 3

retryDelaysMs == <<0, 5000, 15000>>

AUTOSAVE_EVERY_FILES == 10

(***************************************************************************)
(* State.                                                                  *)
(***************************************************************************)
VARIABLES
  data,            \* the in-memory snapshot (localizationData)
  langOrder,       \* per key, the insertion order of the languages of its object
  lastOp, subs, passes,      \* gap-fill engine: last pass, its count, fresh-pass counts
  written,         \* the slots the last pass assigned, read by the properties only
  items, limits, batches,    \* itemsToTranslate, the token limits, the batches
  cfg,             \* requiredLangs, whether outputDir/inputFile is inputFile, apply revision
  disk,            \* the files: "in" is inputFile, "out" is outputDir/inputFile
  run,             \* number of the current run of the command
  pc,              \* where runTranslation is suspended
  fileIdx, batchIdx, attempt,
  interrupted, interruptTimer,
  saveRejected,    \* savePromise is a rejected promise
  saves,           \* the saveResult calls made so far, each with its position
  tr,              \* the Translator object: its call in progress and its batchCount
  counters,        \* failedBatches, totalApplied, totalSkipped, translatedFiles
  hist             \* history of the run, read by the properties only

vars == <<data, langOrder, lastOp, subs, passes, written, items, limits, batches, cfg, disk, run, pc,
          fileIdx, batchIdx, attempt, interrupted, interruptTimer, saveRejected,
          saves, tr, counters, hist>>

runVars == <<cfg, disk, run, pc, fileIdx, batchIdx, attempt, interrupted,
             interruptTimer, saveRejected, counters, hist>>

fillVars == <<langOrder, lastOp, subs, passes, written, saves, tr>>

UniformOrder == [p \in Range(KeyPairs) |-> LangOrder]

NoFile == <<>>

\* No Translator object is part of the specification at hand.
NoTranslator == <<>>

Idle ==
  /\ cfg = [requiredLangs |-> <<>>, outputIsInput |-> TRUE, guarded |-> FALSE]
  /\ disk = [p \in {"in", "out"} |-> NoFile]
  /\ run = 0
  /\ pc = "off"
  /\ fileIdx = 0
  /\ batchIdx = 0
  /\ attempt = 0
  /\ interrupted = FALSE
  /\ interruptTimer = FALSE
  /\ saveRejected = FALSE
  /\ saves = <<>>
  /\ counters = <<>>
  /\ hist = <<>>

(***************************************************************************)
(* The gap-fill engine applied to every snapshot over a small alphabet:    *)
(* null, "", " ", "a", "a " and "b".                                       *)
(***************************************************************************)
Empty == <<>>

TxtA == Str("a", 1)

TxtAPad == <<<<"a", 1>>, <<" ", 1>>>>

TxtB == Str("b", 1)

FillValues ==
  [l \in Langs |-> IF l = "en" THEN {Null, TxtA, TxtAPad}
                   ELSE IF l = "ru" THEN {Null, OneSpace, TxtA, TxtB}
                   ELSE {Empty, TxtB}]

MkSnapshot(rowOf) ==
  [f \in Files |-> [k \in Range(KeysOf[f]) |-> rowOf[<<f, k>>]]]

FillRows == {r \in [Langs -> {Null, Empty, OneSpace, TxtA, TxtAPad, TxtB}] :
               \A l \in Langs : r[l] \in FillValues[l]}

ForeignRows ==
  {[l \in Langs |-> IF l = "en" THEN TxtA ELSE TxtB],
   [l \in Langs |-> IF l = "en" THEN TxtB ELSE TxtAPad]}

\* Every object built en, ru, tr, or the object of f1/k2 built en, tr, ru.
LangOrders ==
  {UniformOrder, [UniformOrder EXCEPT ![<<"f1", "k2">>] = <<"en", "tr", "ru">>]}

ForeignSnapshots == {MkSnapshot([p \in Range(KeyPairs) |-> r]) : r \in ForeignRows}

InitFill ==
  /\ \E rowOf \in [Range(KeyPairs) -> FillRows] : data = MkSnapshot(rowOf)
  /\ langOrder \in LangOrders
  /\ lastOp = "load"
  /\ subs = 0
  /\ passes = <<>>
  /\ written = {}
  /\ items = <<>>
  /\ limits = <<>>
  /\ batches = <<>>
  /\ tr = NoTranslator
  /\ Idle

\* The slots a pass assigned: every assignment of a pass replaces a missing
\* value by one with content, or a value other than " " by " ".
WrittenBy(before, after) ==
  {s \in Slots : after[s[1]][s[2]][s[3]] # before[s[1]][s[2]][s[3]]}

\* buildSourceTextIndex followed by fillGaps, as scripts/fill-gaps.ts runs them.
FillPass ==
  \E index \in {buildSourceTextIndex(data, langOrder, "en")} :
    \E res \in {fillGaps(data, langOrder, index)} :
      /\ data' = res.data
      /\ written' = WrittenBy(data, res.data)
      /\ subs' = res.substitutions
      /\ lastOp' = "fillGaps"
      /\ passes' = IF Len(passes) < 2 THEN Append(passes, res.substitutions)
                   ELSE <<passes[2], res.substitutions>>

\* fillGaps with an index that was built from some other snapshot.
FillWithIndex ==
  \E index \in {buildSourceTextIndex(d0, UniformOrder, "en") : d0 \in ForeignSnapshots} :
    \E res \in {fillGaps(data, langOrder, index)} :
      /\ data' = res.data
      /\ written' = WrittenBy(data, res.data)
      /\ subs' = res.substitutions
      /\ lastOp' = "fillGapsForeign"
      /\ passes' = <<>>

FillUniform ==
  \E res \in {fillUniformValues(data)} :
    /\ data' = res.data
    /\ written' = WrittenBy(data, res.data)
    /\ subs' = res.substitutions
    /\ lastOp' = "fillUniformValues"
    /\ passes' = <<>>

FillAllBlank ==
  \E res \in {fillAllNullOrWhitespaceOnlyKeys(data)} :
    /\ data' = res.data
    /\ written' = WrittenBy(data, res.data)
    /\ subs' = res.substitutions
    /\ lastOp' = "fillAllNullOrWhitespaceOnlyKeys"
    /\ passes' = <<>>

NextFill ==
  \/ FillPass /\ UNCHANGED <<langOrder, saves, tr, items, limits, batches, runVars>>
  \/ FillWithIndex /\ UNCHANGED <<langOrder, saves, tr, items, limits, batches, runVars>>
  \/ FillUniform /\ UNCHANGED <<langOrder, saves, tr, items, limits, batches, runVars>>
  \/ FillAllBlank /\ UNCHANGED <<langOrder, saves, tr, items, limits, batches, runVars>>

SpecFill == InitFill /\ [][NextFill]_vars

HasContent(val) == val # Null /\ Trim(val) # <<>>

\* C1: in every step of the gap-fill engine (fillGaps with a fresh or a foreign
\* index, fillUniformValues, fillAllNullOrWhitespaceOnlyKeys, in any order and
\* any number of times) a slot that holds non-whitespace content keeps its value.
C1_NeverOverwrite ==
  [][\A s \in Slots :
       HasContent(data[s[1]][s[2]][s[3]])
         => data'[s[1]][s[2]][s[3]] = data[s[1]][s[2]][s[3]]]_vars

\* A pass has written somewhere while a slot with content kept a value that
\* differs from the one the first donor of its source text supplies.
C1_Witness ==
  /\ lastOp \in {"fillGaps", "fillGapsForeign"}
  /\ subs > 0
  /\ \E s \in Slots, d0 \in ForeignSnapshots \cup {data} :
       LET langs == data[s[1]][s[2]]
           cand == FirstDonor(DonorsFor(langs, langOrder[<<s[1], s[2]>>],
                                        buildSourceTextIndex(d0, UniformOrder, "en")),
                              s[3])
       IN HasContent(langs[s[3]]) /\ cand # Null /\ cand # langs[s[3]]

\* C9: of two consecutive fill passes, each with an index freshly built from
\* the data it runs on, the second performs zero substitutions.  A fill that
\* writes a language which comes before the source of the key's text in the
\* key's own order moves the key to another source text.
C9_Idempotent == Len(passes) = 2 => passes[2] = 0

\* The same for the snapshots whose objects all have the same language order.
C9_SameOrderIdempotent ==
  langOrder = UniformOrder /\ Len(passes) = 2 => passes[2] = 0

SourceOf(d, ord, p) == getSourceText(d[p[1]][p[2]], ord[p], "en")

\* The positions, in file-then-key order, of the keys that have the source
\* text of the key of slot s and hold the language of s.
Holders(d, ord, s) ==
  {i \in 1..Len(KeyPairs) :
     /\ SourceOf(d, ord, KeyPairs[i]) # Null
     /\ SourceOf(d, ord, KeyPairs[i]) = SourceOf(d, ord, <<s[1], s[2]>>)
     /\ ~isMissing(d[KeyPairs[i][1]][KeyPairs[i][2]][s[3]])}

FirstHolderValue(d, ord, s) ==
  LET first == CHOOSE i \in Holders(d, ord, s) : \A j \in Holders(d, ord, s) : i <= j
  IN d[KeyPairs[first][1]][KeyPairs[first][2]][s[3]]

\* C13: a fill pass with a fresh index gives every fillable slot for which
\* some key of the same source text holds the language the value, verbatim,
\* of the first such key in file-then-key order, leaves every other slot as
\* it is, and counts exactly the slots it wrote.
C13_DonorSelection ==
  [][lastOp' = "fillGaps" =>
       /\ \A s \in Slots :
            data'[s[1]][s[2]][s[3]] =
              IF isMissing(data[s[1]][s[2]][s[3]]) /\ Holders(data, langOrder, s) # {}
              THEN FirstHolderValue(data, langOrder, s)
              ELSE data[s[1]][s[2]][s[3]]
       /\ subs' = Cardinality(written')]_vars

\* A pass wrote a slot for which two other keys of the same source text hold
\* different values; the slot has the value of the first of them.
C13_Witness ==
  /\ lastOp = "fillGaps"
  /\ \E s \in written :
       \E i, j \in Holders(data, langOrder, s) :
         LET p == KeyPairs[i]
             q == KeyPairs[j]
         IN /\ i < j
            /\ p # <<s[1], s[2]>> /\ q # <<s[1], s[2]>>
            /\ <<p[1], p[2], s[3]>> \notin written
            /\ <<q[1], q[2], s[3]>> \notin written
            /\ data[p[1]][p[2]][s[3]] # data[q[1]][q[2]][s[3]]
            /\ data[s[1]][s[2]][s[3]] = data[p[1]][p[2]][s[3]]

ExistingLangs(langs) == {l \in DOMAIN langs : ~isMissing(langs[l])}

IsUniform(langs) ==
  /\ Cardinality(ExistingLangs(langs)) >= 2
  /\ Cardinality({langs[l] : l \in ExistingLangs(langs)}) = 1
  /\ ExistingLangs(langs) # DOMAIN langs

AllBlank(langs) == \A l \in DOMAIN langs : ~HasContent(langs[l])

\* C15: the normalization sets every slot of a key without any content to
\* one space, leaves every key that has content as it is, and returns the
\* number of slots of the keys without content that were not one space.
C15_AllBlankNormalization ==
  [][lastOp' = "fillAllNullOrWhitespaceOnlyKeys" =>
       /\ \A p \in Range(KeyPairs) :
            data'[p[1]][p[2]] =
              IF AllBlank(data[p[1]][p[2]])
              THEN [l \in DOMAIN data[p[1]][p[2]] |-> OneSpace]
              ELSE data[p[1]][p[2]]
       /\ subs' = Cardinality({s \in Slots : /\ AllBlank(data[s[1]][s[2]])
                                             /\ data[s[1]][s[2]][s[3]] # OneSpace})]_vars

\* The normalization wrote some slots of a key that had a slot holding one
\* space already, and there is a key with content.
C15_Witness ==
  /\ lastOp = "fillAllNullOrWhitespaceOnlyKeys"
  /\ \E s, t \in Slots :
       /\ s[1] = t[1] /\ s[2] = t[2]
       /\ s \in written
       /\ t \notin written
       /\ data[t[1]][t[2]][t[3]] = OneSpace
  /\ \E p \in Range(KeyPairs) : ~AllBlank(data[p[1]][p[2]])
  /\ subs = Cardinality(written)

(***************************************************************************)
(* The dynamic batcher on its own: any item sequence, any pair of limits.  *)
(***************************************************************************)
MaxItems == 3

Hello == Str("h", 5)

LongText == Str("h", 400)

Privet == Str("cyr", 3)

Templated == <<<<"h", 3>>, <<"#", 2>>>>

ItemKinds ==
  { [key |-> "k1", fileName |-> "f1", context |-> [l \in {"en"} |-> Hello],
     targets |-> <<"ru">>],
    [key |-> "k1", fileName |-> "f1", context |-> [l \in {"en"} |-> Templated],
     targets |-> <<"ru", "tr">>],
    [key |-> "k2", fileName |-> "f1", context |-> [l \in {"en"} |-> LongText],
     targets |-> <<"ru", "tr">>],
    [key |-> "k3", fileName |-> "f2", context |-> [l \in {"ru"} |-> Privet],
     targets |-> <<"en">>] }

ItemSequences ==
  UNION {[1..n -> ItemKinds] : n \in 0..MaxItems}
    \cup {[i \in 1..(MAX_BATCH_ITEMS + 1) |-> k] : k \in ItemKinds}

PromptLimits == {205, 220, 8192}

ResponseLimits == {60, 100, 16384}

InitBatch ==
  /\ items \in ItemSequences
  /\ limits \in [maxPromptTokens : PromptLimits, maxResponseTokens : ResponseLimits]
  /\ batches = <<>>
  /\ data = NoFile
  /\ langOrder = UniformOrder
  /\ lastOp = "items"
  /\ subs = 0
  /\ passes = <<>>
  /\ written = {}
  /\ tr = NoTranslator
  /\ Idle

BuildBatches ==
  /\ lastOp = "items"
  /\ batches' = buildDynamicBatches(items, limits.maxPromptTokens, limits.maxResponseTokens)
  /\ lastOp' = "buildDynamicBatches"
  /\ UNCHANGED <<data, langOrder, saves, tr, subs, passes, written, items, limits, runVars>>

NextBatch == BuildBatches

SpecBatch == InitBatch /\ [][NextBatch]_vars

\* C3: every batch returned by buildDynamicBatches has an estimated response
\* size of at most maxResponseTokens, unless it consists of exactly one item.
C3_ResponseBound ==
  lastOp = "buildDynamicBatches" =>
    \A i \in 1..Len(batches) :
      \/ estimateResponseTokens(batches[i]) <= limits.maxResponseTokens
      \/ Len(batches[i]) = 1

\* A batch of two or more items was closed because the next item would have
\* taken it over the response limit, and that item, oversized on its own,
\* forms a batch of one.
C3_Witness ==
  /\ lastOp = "buildDynamicBatches"
  /\ \E i \in 1..(Len(batches) - 1) :
       /\ Len(batches[i]) >= 2
       /\ estimateResponseTokens(Append(batches[i], batches[i + 1][1]))
            > limits.maxResponseTokens
       /\ Len(batches[i + 1]) = 1
       /\ estimateResponseTokens(batches[i + 1]) > limits.maxResponseTokens
       /\ SYSTEM_PROMPT_TOKENS + estimateItemTokens(batches[i + 1][1])
            + SumSeq([j \in 1..Len(batches[i]) |-> estimateItemTokens(batches[i][j])])
            <= limits.maxPromptTokens

PromptTokensOf(batch) ==
  SYSTEM_PROMPT_TOKENS + SumSeq([j \in 1..Len(batch) |-> estimateItemTokens(batch[j])])

\* C16: the batches, concatenated in order, are exactly the items; no batch
\* is empty; no items give no batches.
C16_BatchPartition ==
  lastOp = "buildDynamicBatches" =>
    /\ ConcatAll(batches) = items
    /\ \A i \in 1..Len(batches) : Len(batches[i]) >= 1
    /\ items = <<>> => batches = <<>>

\* Three or more items were batched, and an item that exceeds the response
\* limit on its own is a batch of one between other batches.
C16_Witness ==
  /\ lastOp = "buildDynamicBatches"
  /\ Len(items) >= 3
  /\ \E i \in 2..Len(batches) :
       /\ Len(batches[i]) = 1
       /\ estimateResponseTokens(batches[i]) > limits.maxResponseTokens

\* C17: a batch of two or more items has a prompt estimate (the system
\* prompt's 200 plus the estimates of its items) of at most maxPromptTokens.
C17_PromptBound ==
  lastOp = "buildDynamicBatches" =>
    \A i \in 1..Len(batches) :
      Len(batches[i]) >= 2 => PromptTokensOf(batches[i]) <= limits.maxPromptTokens

\* A batch of two or more items was closed although the next item fitted the
\* response limit and the item cap: it would have passed the prompt limit.
C17_Witness ==
  /\ lastOp = "buildDynamicBatches"
  /\ \E i \in 1..(Len(batches) - 1) :
       /\ Len(batches[i]) >= 2
       /\ Len(batches[i]) < MAX_BATCH_ITEMS
       /\ estimateResponseTokens(Append(batches[i], batches[i + 1][1]))
            <= limits.maxResponseTokens
       /\ PromptTokensOf(Append(batches[i], batches[i + 1][1])) > limits.maxPromptTokens

\* C18: no batch has more than MAX_BATCH_ITEMS items.
C18_ItemCap ==
  lastOp = "buildDynamicBatches" =>
    \A i \in 1..Len(batches) : Len(batches[i]) <= MAX_BATCH_ITEMS

\* A batch was closed at MAX_BATCH_ITEMS items although the next item fitted
\* both token limits.
C18_Witness ==
  /\ lastOp = "buildDynamicBatches"
  /\ \E i \in 1..(Len(batches) - 1) :
       /\ Len(batches[i]) = MAX_BATCH_ITEMS
       /\ estimateResponseTokens(Append(batches[i], batches[i + 1][1]))
            <= limits.maxResponseTokens
       /\ PromptTokensOf(Append(batches[i], batches[i + 1][1])) <= limits.maxPromptTokens

\* The batches are the items in their order, none lost, none empty.
BatchesPartitionItems ==
  lastOp = "buildDynamicBatches" =>
    /\ ConcatAll(batches) = items
    /\ \A i \in 1..Len(batches) : Len(batches[i]) \in 1..MAX_BATCH_ITEMS

(***************************************************************************)
(* scripts/translate.ts: runTranslation as a state machine.  pc names the  *)
(* statement the function is at; at "saveCopies", "backoff", "call",       *)
(* "saveBatch", "autosave" and "finalSave" it is suspended in an await,    *)
(* and only there can a signal handler or the grace timer run.             *)
(***************************************************************************)
MaxRuns == 2

MaxSignals == 2

MaxFaults == 3

\* What an answer takes from the budget of faults of one exploration: a failed
\* call takes one, an answer of another shape than the one asked for takes all.
FaultCost(kind) ==
  IF kind = "full" THEN 0 ELSE IF kind = "throw" THEN 1 ELSE MaxFaults

Huge == Str("h", MAX_KEY_LENGTH + 1)

RunRows ==
  [missBoth |-> [l \in Langs |-> IF l = "en" THEN Hello
                                 ELSE IF l = "ru" THEN Null ELSE OneSpace],
   missRu   |-> [l \in Langs |-> IF l = "en" THEN Hello
                                 ELSE IF l = "ru" THEN Null ELSE TxtB],
   complete |-> [l \in Langs |-> IF l = "ru" THEN Privet ELSE Hello],
   hugeEn   |-> [l \in Langs |-> IF l = "en" THEN Huge
                                 ELSE IF l = "ru" THEN Null ELSE TxtB],
   noText   |-> [l \in Langs |-> IF l = "en" THEN Null ELSE <<>>]]

RunSnapshots ==
  {MkSnapshot([p \in Range(KeyPairs) |->
                 RunRows[IF p[2] = "k1" THEN r[1] ELSE IF p[2] = "k2" THEN r[2] ELSE r[3]]]) :
     r \in {<<"missBoth", "missRu", "complete">>,
            <<"missRu", "missBoth", "missBoth">>,
            <<"hugeEn", "missRu", "missRu">>,
            <<"complete", "noText", "hugeEn">>,
            <<"missRu", "complete", "noText">>}}

ResponseTokenSettings == {100, 16384}

configLimits(maxResponse) ==
  [maxPromptTokens |-> maxResponse \div 2, maxResponseTokens |-> maxResponse]

inPath == "in"

outputFile(c) == IF c.outputIsInput THEN inPath ELSE "out"

AwaitPcs == {"saveCopies", "backoff", "call", "saveBatch", "autosave", "finalSave"}

SavePcs == {"saveCopies", "saveBatch", "autosave", "finalSave"}

NoBatchHistory ==
  [outcomes |-> <<>>, delays |-> <<>>, failedBefore |-> 0, dataBefore |-> NoFile,
   sent |-> {}, results |-> NoResults, kind |-> "none", exchanges |-> 0]

FreshCounters ==
  [failedBatches |-> 0, totalApplied |-> 0, totalSkipped |-> 0, translatedFiles |-> 0,
   filesNeedWork |-> 0, totalMissingKeys |-> 0]

Init ==
  /\ cfg \in [requiredLangs : {<<"ru", "tr">>}, outputIsInput : BOOLEAN, guarded : BOOLEAN]
  /\ limits \in {configLimits(m) : m \in ResponseTokenSettings}
  /\ disk \in {[p \in {"in", "out"} |-> IF p = inPath THEN s ELSE NoFile] : s \in RunSnapshots}
  /\ data = NoFile
  /\ run = 1
  /\ pc = "load"
  /\ fileIdx = 0
  /\ batchIdx = 0
  /\ attempt = 0
  /\ items = <<>>
  /\ batches = <<>>
  /\ interrupted = FALSE
  /\ interruptTimer = FALSE
  /\ saveRejected = FALSE
  /\ saves = <<>>
  /\ tr = NoTranslator
  /\ counters = FreshCounters
  /\ hist = [signals |-> 0, secondSignals |-> 0, stoppedAt |-> "none", faults |-> 0,
             startedBatches |-> 0, scannedFiles |-> 0,
             batch |-> NoBatchHistory, requested |-> {},
             prev |-> [persisted |-> NoFile, incomplete |-> FALSE]]
  /\ langOrder = UniformOrder
  /\ lastOp = "run"
  /\ subs = 0
  /\ passes = <<>>
  /\ written = {}

\* Lines 68-69 and 143-191: read inputFile, parse it, count the work in the
\* pre-scan, start the counters.
Load ==
  /\ pc = "load"
  /\ data' = disk[inPath]
  /\ fileIdx' = 1
  /\ pc' = "fileTop"
  /\ counters' = [counters EXCEPT
                    !.filesNeedWork = filesNeedWork(disk[inPath], cfg.requiredLangs),
                    !.totalMissingKeys = totalMissingKeys(disk[inPath], cfg.requiredLangs)]
  /\ UNCHANGED <<fillVars, items, limits, batches, cfg, disk, run, batchIdx, attempt,
                 interrupted, interruptTimer, saveRejected, hist>>

nextFileRepeating(idx) == idx

\* Line 193: the for-of loop goes on to the next file path.
nextFile(idx) == idx + 1

fileLoopContinuesAlways(idx, stop) == idx <= Len(FilePaths)

\* Lines 193-194: the next file is taken unless the stop flag is set.
fileLoopContinues(idx, stop) == idx <= Len(FilePaths) /\ ~stop

\* Lines 193-240: the file loop's checkpoint, then the scan of the file with
\* its long-key copies; leaving the loop starts the final save (line 332).
FileTop ==
  /\ pc = "fileTop"
  /\ IF fileLoopContinues(fileIdx, interrupted)
     THEN LET sc == ScanFile(data, FilePaths[fileIdx], cfg.requiredLangs)
          IN /\ data' = sc.data
             /\ items' = sc.itemsToTranslate
             /\ pc' = IF sc.fileHadCopies THEN "saveCopies" ELSE "afterScan"
             /\ hist' = [hist EXCEPT !.scannedFiles = @ + 1]
     ELSE /\ pc' = "finalSave"
          /\ UNCHANGED <<data, items, hist>>
  /\ UNCHANGED <<fillVars, limits, batches, cfg, disk, run, fileIdx, batchIdx, attempt,
                 interrupted, interruptTimer, saveRejected, counters>>

\* Lines 243-255: a file with nothing to translate is skipped, else batched.
AfterScan ==
  /\ pc = "afterScan"
  /\ IF Len(items) = 0
     THEN /\ fileIdx' = nextFile(fileIdx)
          /\ pc' = "fileTop"
          /\ UNCHANGED <<batches, batchIdx>>
     ELSE /\ batches' = buildDynamicBatches(items, limits.maxPromptTokens,
                                            limits.maxResponseTokens)
          /\ batchIdx' = 1
          /\ pc' = "batchTop"
          /\ UNCHANGED fileIdx
  /\ UNCHANGED <<data, fillVars, items, limits, cfg, disk, run, attempt,
                 interrupted, interruptTimer, saveRejected, counters, hist>>

batchLoopContinuesAlways(idx, n, stop) == idx <= n

\* Lines 257-258: the next batch is taken unless the stop flag is set.
batchLoopContinues(idx, n, stop) == idx <= n /\ ~stop

\* Lines 257-269: the batch loop's checkpoint and the start of the retry loop.
BatchTop ==
  /\ pc = "batchTop"
  /\ IF batchLoopContinues(batchIdx, Len(batches), interrupted)
     THEN /\ attempt' = 0
          /\ pc' = "attemptTop"
          /\ hist' = [hist EXCEPT !.startedBatches = @ + 1,
                                  !.batch = [NoBatchHistory EXCEPT
                                               !.failedBefore = counters.failedBatches,
                                               !.dataBefore = data]]
     ELSE /\ pc' = "fileEnd"
          /\ UNCHANGED <<attempt, hist>>
  /\ UNCHANGED <<data, fillVars, items, limits, batches, cfg, disk, run, fileIdx, batchIdx,
                 interrupted, interruptTimer, saveRejected, counters>>

\* Lines 269-274: the retry loop's test and the wait before a retry.
AttemptTop ==
  /\ pc = "attemptTop"
  /\ IF attempt < maxRetries
     THEN /\ pc' = IF attempt > 0 THEN "backoff" ELSE "call"
          /\ hist' = [hist EXCEPT !.batch.delays =
                        Append(@, IF attempt > 0 THEN retryDelaysMs[attempt + 1] ELSE 0)]
          /\ UNCHANGED batchIdx
     ELSE /\ batchIdx' = batchIdx + 1
          /\ pc' = "batchTop"
          /\ UNCHANGED hist
  /\ UNCHANGED <<data, fillVars, items, limits, batches, cfg, disk, run, fileIdx, attempt,
                 interrupted, interruptTimer, saveRejected, counters>>

\* Line 273: the retry delay has elapsed.
BackoffElapsed ==
  /\ pc = "backoff"
  /\ pc' = "call"
  /\ UNCHANGED <<data, fillVars, items, limits, batches, cfg, disk, run, fileIdx, batchIdx,
                 attempt, interrupted, interruptTimer, saveRejected, counters, hist>>

failedBatchesAfterCatchAlways(att, failedBatches) == failedBatches + 1

\* Lines 304-311: the catch block counts the batch as failed on the last attempt.
failedBatchesAfterCatch(att, failedBatches) ==
  IF att = maxRetries - 1 THEN failedBatches + 1 ELSE failedBatches

\* Lines 275-301 and 304-311: translateFileBatch returns or throws; its results
\* are applied, then saveResult is called (line 302).  The answer is of one
\* of the given kinds; an exploration that limits its faults counts them.
OracleReturnsOf(kinds, limited) ==
  /\ pc = "call"
  /\ \E kind \in kinds :
       LET batch == batches[batchIdx]
           f == FilePaths[fileIdx]
           r == translateFileBatch(batch, kind, limits.maxResponseTokens)
           ap == ApplyResults(data, f, r.results, cfg.guarded)
           sent == UNION {{<<f, batch[i].key, l>> : l \in Range(batch[i].targets)} :
                            i \in 1..Len(batch)}
       IN /\ limited => hist.faults + FaultCost(kind) <= MaxFaults
          /\ IF r.threw
             THEN /\ counters' = [counters EXCEPT !.failedBatches =
                                    failedBatchesAfterCatch(attempt, @)]
                  /\ attempt' = attempt + 1
                  /\ pc' = "attemptTop"
                  /\ hist' = [hist EXCEPT !.faults = IF limited THEN @ + FaultCost(kind) ELSE @,
                                          !.requested = @ \cup sent,
                                          !.batch.sent = sent,
                                          !.batch.kind = kind,
                                          !.batch.exchanges = @ + r.exchanges,
                                          !.batch.outcomes = Append(@, "fail")]
                  /\ UNCHANGED data
             ELSE /\ data' = ap.data
                  /\ counters' = [counters EXCEPT !.totalApplied = @ + ap.appliedCount,
                                                  !.totalSkipped = @ + ap.skippedCount]
                  /\ pc' = "saveBatch"
                  /\ hist' = [hist EXCEPT
                                !.faults = IF limited THEN @ + FaultCost(kind) ELSE @,
                                !.requested = @ \cup sent,
                                !.batch.sent = sent,
                                !.batch.outcomes = Append(@, "ok"),
                                !.batch.kind = kind,
                                !.batch.exchanges = @ + r.exchanges,
                                !.batch.results = r.results]
                  /\ UNCHANGED attempt
  /\ UNCHANGED <<fillVars, items, limits, batches, cfg, disk, run, fileIdx, batchIdx,
                 interrupted, interruptTimer, saveRejected>>

OracleReturns == OracleReturnsOf(ResponseKinds, TRUE)

\* Line 81: the whole document replaces the file at outputDir/inputFile.
saveResultWrite(dk, path, d) == [dk EXCEPT ![path] = d]

\* Lines 75-94: a saveResult call settles.  It awaits the previous save first,
\* so once a save has been rejected every later one is rejected too.
SaveSettles(limited) ==
  /\ pc \in SavePcs
  /\ \E ok \in BOOLEAN :
       /\ ok => ~saveRejected
       /\ ~ok => saveRejected \/ ~limited \/ hist.faults < MaxFaults
       /\ IF ok
          THEN /\ disk' = saveResultWrite(disk, outputFile(cfg), data)
               /\ pc' = CASE pc = "saveCopies" -> "afterScan"
                          [] pc = "saveBatch" -> "batchTop"
                          [] pc = "autosave" -> "fileTop"
                          [] pc = "finalSave" -> "done"
               /\ batchIdx' = IF pc = "saveBatch" THEN batchIdx + 1 ELSE batchIdx
               /\ fileIdx' = IF pc = "autosave" THEN nextFile(fileIdx) ELSE fileIdx
               /\ interruptTimer' = IF pc = "finalSave" THEN FALSE ELSE interruptTimer
               /\ UNCHANGED <<saveRejected, attempt, counters, hist>>
          ELSE /\ saveRejected' = TRUE
               /\ IF pc = "saveBatch"
                  THEN /\ counters' = [counters EXCEPT !.failedBatches =
                                         failedBatchesAfterCatch(attempt, @)]
                       /\ attempt' = attempt + 1
                       /\ pc' = "attemptTop"
                       /\ hist' = [hist EXCEPT
                                     !.faults = IF saveRejected \/ ~limited THEN @ ELSE @ + 1]
                  ELSE /\ pc' = "fatal"
                       /\ hist' = [hist EXCEPT
                                     !.faults = IF saveRejected \/ ~limited THEN @ ELSE @ + 1]
                       /\ UNCHANGED <<counters, attempt>>
               /\ UNCHANGED <<disk, batchIdx, fileIdx, interruptTimer>>
  /\ UNCHANGED <<data, fillVars, items, limits, batches, cfg, run, interrupted>>

SaveCompletes == SaveSettles(TRUE)

autosaveDueNever(translatedFiles) == FALSE

\* Line 320: the test of the autosave.
autosaveDue(translatedFiles) == translatedFiles % AUTOSAVE_EVERY_FILES = 0

\* Lines 315-322: the file is counted; every tenth counted file is autosaved.
FileEnd ==
  /\ pc = "fileEnd"
  /\ counters' = [counters EXCEPT !.translatedFiles = @ + 1]
  /\ IF autosaveDue(counters'.translatedFiles)
     THEN pc' = "autosave" /\ UNCHANGED fileIdx
     ELSE pc' = "fileTop" /\ fileIdx' = nextFile(fileIdx)
  /\ UNCHANGED <<data, fillVars, items, limits, batches, cfg, disk, run, batchIdx, attempt,
                 interrupted, interruptTimer, saveRejected, hist>>

onInterruptSingleStage(stop, timer) == [interrupted |-> TRUE, interruptTimer |-> FALSE]

onInterruptAlwaysArming(stop, timer) ==
  IF ~timer
  THEN [interrupted |-> stop, interruptTimer |-> TRUE]
  ELSE [interrupted |-> TRUE, interruptTimer |-> FALSE]

\* Lines 97-132: the handler of SIGINT, SIGTERM and SIGHUP.
onInterrupt(stop, timer) ==
  IF ~stop /\ ~timer
  THEN [interrupted |-> FALSE, interruptTimer |-> TRUE]
  ELSE [interrupted |-> TRUE, interruptTimer |-> FALSE]

\* A termination signal is delivered while the run is suspended.
Signal ==
  /\ pc \in AwaitPcs
  /\ hist.signals < MaxSignals
  /\ interrupted' = onInterrupt(interrupted, interruptTimer).interrupted
  /\ interruptTimer' = onInterrupt(interrupted, interruptTimer).interruptTimer
  /\ hist' = [hist EXCEPT !.signals = @ + 1,
                          !.secondSignals = IF interruptTimer THEN @ + 1 ELSE @,
                          !.stoppedAt = IF interruptTimer THEN pc ELSE @]
  /\ UNCHANGED <<data, fillVars, items, limits, batches, cfg, disk, run, pc, fileIdx,
                 batchIdx, attempt, saveRejected, counters>>

\* Lines 108-111: the 3000 ms grace timer fires.
TimerExpires ==
  /\ pc \in AwaitPcs
  /\ interruptTimer
  /\ interruptTimer' = FALSE
  /\ UNCHANGED <<data, fillVars, items, limits, batches, cfg, disk, run, pc, fileIdx,
                 batchIdx, attempt, interrupted, saveRejected, counters, hist>>

\* The same command is run again after the previous run has ended.
Restart ==
  /\ pc \in {"done", "fatal"}
  /\ run < MaxRuns
  /\ run' = run + 1
  /\ pc' = "load"
  /\ data' = NoFile
  /\ fileIdx' = 0
  /\ batchIdx' = 0
  /\ attempt' = 0
  /\ items' = <<>>
  /\ batches' = <<>>
  /\ interrupted' = FALSE
  /\ interruptTimer' = FALSE
  /\ saveRejected' = FALSE
  /\ counters' = FreshCounters
  /\ hist' = [hist EXCEPT !.startedBatches = 0, !.scannedFiles = 0, !.stoppedAt = "none",
                          !.batch = NoBatchHistory, !.requested = {},
                          !.prev = [persisted |-> disk[outputFile(cfg)],
                                    incomplete |-> interrupted \/ counters.failedBatches > 0]]
  /\ UNCHANGED <<fillVars, limits, cfg, disk>>

Next ==
  \/ Load
  \/ FileTop
  \/ AfterScan
  \/ BatchTop
  \/ AttemptTop
  \/ BackoffElapsed
  \/ OracleReturns
  \/ SaveCompletes
  \/ FileEnd
  \/ Signal
  \/ TimerExpires
  \/ Restart

Spec == Init /\ [][Next]_vars

(***************************************************************************)
(* saveResult on its own (scripts/translate.ts lines 75-94): a call may    *)
(* arrive while earlier calls are in flight, and the snapshot may change   *)
(* between the calls.                                                      *)
(***************************************************************************)
MaxSaves == 3

SaveVersions ==
  {MkSnapshot([p \in Range(KeyPairs) |-> RunRows.missRu]),
   MkSnapshot([p \in Range(KeyPairs) |-> RunRows.complete])}

Settled == {"fulfilled", "rejected"}

InFlight == {"mkdir", "writeFile", "sync"}

DurabilityOutcomes == {"synced", "openFailed", "syncFailed", "closeFailed"}

\* Lines 76-77: the call reads savePromise and replaces it by its own promise.
newSave(svs) ==
  [stage |-> "awaitPrevious", content |-> NoFile, writes |-> 0, durability |-> "none",
   overlapped |-> \E j \in 1..Len(svs) : svs[j].stage \notin Settled]

previousSettledAlways(svs, i) == TRUE

\* Line 78: await previous; savePromise starts as a resolved promise (line 65).
previousSettled(svs, i) == IF i = 1 THEN TRUE ELSE svs[i - 1].stage \in Settled

saveRest ==
  <<tr, langOrder, lastOp, subs, passes, written, items, limits, batches, cfg, run, pc, fileIdx,
    batchIdx, attempt, interrupted, interruptTimer, saveRejected, counters, hist>>

InitSave ==
  /\ data \in SaveVersions
  /\ disk = [p \in {"in", "out"} |-> IF p = inPath THEN data ELSE NoFile]
  /\ saves = <<>>
  /\ tr = NoTranslator
  /\ langOrder = UniformOrder
  /\ lastOp = "save"
  /\ subs = 0
  /\ passes = <<>>
  /\ written = {}
  /\ items = <<>>
  /\ limits = <<>>
  /\ batches = <<>>
  /\ cfg = [requiredLangs |-> <<>>, outputIsInput |-> FALSE, guarded |-> FALSE]
  /\ run = 0
  /\ pc = "off"
  /\ fileIdx = 0
  /\ batchIdx = 0
  /\ attempt = 0
  /\ interrupted = FALSE
  /\ interruptTimer = FALSE
  /\ saveRejected = FALSE
  /\ counters = <<>>
  /\ hist = <<>>

SaveTrigger ==
  /\ Len(saves) < MaxSaves
  /\ saves' = Append(saves, newSave(saves))
  /\ UNCHANGED <<data, disk, saveRest>>

afterAwaitPreviousSwallowing(svs, i) == "mkdir"

\* Line 78: what await previous leads to: a rejection of the awaited promise
\* is thrown out of the new one; otherwise mkdir is called.
afterAwaitPrevious(svs, i) ==
  IF i > 1 /\ svs[i - 1].stage = "rejected" THEN "rejected" ELSE "mkdir"

\* Line 78: the awaited promise settles; a rejection of it is thrown on.
AwaitPrevious ==
  \E i \in 1..Len(saves) :
    /\ saves[i].stage = "awaitPrevious"
    /\ previousSettled(saves, i)
    /\ saves' = [saves EXCEPT ![i].stage = afterAwaitPrevious(saves, i)]
    /\ UNCHANGED <<data, disk, saveRest>>

\* Line 80: mkdir settles; line 81 then serialises the snapshot as it is now.
Mkdir ==
  \E i \in 1..Len(saves), ok \in BOOLEAN :
    /\ saves[i].stage = "mkdir"
    /\ saves' = [saves EXCEPT ![i] =
                   IF ok THEN [@ EXCEPT !.stage = "writeFile", !.content = data]
                   ELSE [@ EXCEPT !.stage = "rejected"]]
    /\ UNCHANGED <<data, disk, saveRest>>

\* Line 81: writeFile settles.
WriteFile ==
  \E i \in 1..Len(saves), ok \in BOOLEAN :
    /\ saves[i].stage = "writeFile"
    /\ IF ok
       THEN /\ disk' = saveResultWrite(disk, outputFile(cfg), saves[i].content)
            /\ saves' = [saves EXCEPT ![i].stage = "sync", ![i].writes = @ + 1]
       ELSE /\ saves' = [saves EXCEPT ![i].stage = "rejected"]
            /\ UNCHANGED disk
    /\ UNCHANGED <<data, saveRest>>

\* Lines 82-91: open, sync and close; whatever they throw is caught and dropped.
Durability ==
  \E i \in 1..Len(saves), outcome \in DurabilityOutcomes :
    /\ saves[i].stage = "sync"
    /\ saves' = [saves EXCEPT ![i].stage = "fulfilled", ![i].durability = outcome]
    /\ UNCHANGED <<data, disk, saveRest>>

\* The snapshot is mutated between two steps of the saves.
Mutate ==
  /\ data' \in SaveVersions \ {data}
  /\ UNCHANGED <<disk, saves, saveRest>>

NextSave ==
  \/ SaveTrigger
  \/ AwaitPrevious
  \/ Mkdir
  \/ WriteFile
  \/ Durability
  \/ Mutate

SpecSave == InitSave /\ [][NextSave]_vars

\* C11: at most one save is past its wait for the earlier one; a save is past
\* that wait only when every earlier save has settled; no save writes twice.
C11_SaveSerialized ==
  /\ Cardinality({i \in 1..Len(saves) : saves[i].stage \in InFlight}) <= 1
  /\ \A i \in 1..Len(saves) :
       saves[i].stage \in InFlight \cup {"fulfilled"}
         => \A j \in 1..(i - 1) : saves[j].stage \in Settled
  /\ \A i \in 1..Len(saves) : saves[i].writes <= 1

\* A save that was triggered while an earlier one was in flight has written
\* the file, once, and is fulfilled.
C11_Witness ==
  \E i \in 1..Len(saves) :
    /\ saves[i].overlapped
    /\ saves[i].stage = "fulfilled"
    /\ saves[i].writes = 1

\* C12: a rejected snapshot write ends the run (fatal exit); the run takes no
\* further step of its work after it.
C12_WriteFailureNotSwallowed ==
  [][(pc \in SavePcs /\ ~saveRejected /\ saveRejected') => (pc' = "fatal")]_vars

\* The durability half: a save whose open, sync or close failed is fulfilled
\* all the same and has written the file.
C12_DurabilityIgnored ==
  \A i \in 1..Len(saves) :
    saves[i].durability # "none" => saves[i].stage = "fulfilled" /\ saves[i].writes = 1

\* The guards of the steps of runTranslation: the run can take a step.
CanStep ==
  \/ pc \in {"load", "fileTop", "afterScan", "batchTop", "attemptTop", "backoff", "fileEnd"}
  \/ pc = "call" /\ \E kind \in ResponseKinds : hist.faults + FaultCost(kind) <= MaxFaults
  \/ pc \in SavePcs /\ \E ok \in BOOLEAN :
       (ok => ~saveRejected) /\ (~ok => saveRejected \/ hist.faults < MaxFaults)

Val(d, slot) == d[slot[1]][slot[2]][slot[3]]

\* The step in which the results of an oracle call are applied.
ApplyStep == pc = "call" /\ pc' = "saveBatch"

\* C2: the apply step changes a slot only if the slot was fillable (null,
\* empty or whitespace-only) and the value written is non-empty after trim;
\* a slot holding non-whitespace text is never changed by an oracle result.
C2_ApplyOnlyFillable ==
  [][ApplyStep =>
       \A s \in Slots :
         Val(data', s) # Val(data, s)
           => isSlotFillable(Val(data, s)) /\ hasValidTranslationValue(Val(data', s))]_vars

\* The same statement for the revision of the apply loop that tests
\* isSlotFillable before it writes.
C2_GuardedRevision ==
  [][ApplyStep /\ cfg.guarded =>
       \A s \in Slots :
         Val(data', s) # Val(data, s)
           => isSlotFillable(Val(data, s)) /\ hasValidTranslationValue(Val(data', s))]_vars

\* C4: in a run of the same command after a run that was interrupted or had
\* failed batches and persisted its snapshot, the snapshot loaded is the
\* latest persisted one, and no slot sent to the oracle holds a value there.
C4_ResumeSkipsFilled ==
  (run > 1 /\ hist.prev.incomplete /\ hist.prev.persisted # NoFile /\ pc # "load")
    => /\ (pc = "fileTop" /\ hist.scannedFiles = 0 => data = hist.prev.persisted)
       /\ \A s \in hist.requested : ~hasValidTranslationValue(Val(hist.prev.persisted, s))

\* The same statement when outputDir/inputFile is inputFile itself.
C4_InPlaceResume ==
  cfg.outputIsInput => C4_ResumeSkipsFilled

\* How far a stopped run is from its end: every step of a stopped run lowers it.
StopRank ==
  CASE pc \in {"done", "fatal"} -> 0
    [] pc = "finalSave" -> 1
    [] pc = "fileTop" -> 2
    [] pc = "autosave" -> 3
    [] pc = "fileEnd" -> 4
    [] pc = "batchTop" -> 5
    [] pc = "afterScan" -> 6
    [] pc = "saveCopies" -> 7
    [] pc = "saveBatch" -> 8 + 4 * (maxRetries - attempt)
    [] pc = "call" -> 9 + 4 * (maxRetries - attempt)
    [] pc = "backoff" -> 10 + 4 * (maxRetries - attempt)
    [] pc = "attemptTop" -> 11 + 4 * (maxRetries - attempt)
    [] OTHER -> 100

\* C5: a signal that arrives while the grace window is open sets the stop
\* flag; while the flag is set no batch and no file is started, the run is
\* never stuck and each of its steps brings it nearer to its end (so the
\* attempt in flight and the batch are finished), and a run that ends after a
\* stop ends through the final save, which leaves the snapshot on disk; it
\* ends otherwise only when a write was rejected.
C5_DoubleInterrupt ==
  /\ [](interrupted /\ pc \notin {"done", "fatal"} => CanStep)
  /\ [][/\ hist'.secondSignals > hist.secondSignals => interrupted'
        /\ interrupted /\ interrupted'
             => /\ hist'.startedBatches = hist.startedBatches
                /\ hist'.scannedFiles = hist.scannedFiles
                /\ hist'.signals = hist.signals => StopRank' < StopRank
        /\ interrupted /\ pc # "done" /\ pc' = "done"
             => pc = "finalSave" /\ disk'[outputFile(cfg)] = data'
        /\ interrupted /\ pc # "fatal" /\ pc' = "fatal"
             => pc \in SavePcs /\ saveRejected']_vars

\* A run stopped by a second signal during an oracle call, with a file still
\* to come, has ended after its final save.
C5_Witness ==
  /\ interrupted
  /\ pc = "done"
  /\ run = 1
  /\ hist.secondSignals = 1
  /\ counters.totalApplied > 0
  /\ hist.scannedFiles < Len(FilePaths)
  /\ disk[outputFile(cfg)] = data

C7_RetrySuccess ==
  /\ Len(hist.batch.outcomes) <= 3
  /\ Len(hist.batch.delays) <= 3
  /\ hist.batch.delays = SubSeq(<<0, 5000, 15000>>, 1, Len(hist.batch.delays))
  /\ hist.batch.outcomes = <<"fail", "fail", "ok">>
       => /\ counters.failedBatches = hist.batch.failedBefore
          /\ \A s \in hist.batch.sent :
               (/\ s[2] \in DOMAIN hist.batch.results
                /\ s[3] \in DOMAIN hist.batch.results[s[2]]
                /\ hasValidTranslationValue(hist.batch.results[s[2]][s[3]]))
                 => Val(data, s) = hist.batch.results[s[2]][s[3]]

\* The same statement for the runs in which no save is rejected.
C7_WithoutSaveFailure ==
  ~saveRejected => C7_RetrySuccess

C7_Witness ==
  /\ hist.batch.outcomes = <<"fail", "fail", "ok">>
  /\ hist.batch.delays = <<0, 5000, 15000>>
  /\ pc = "batchTop"
  /\ ~saveRejected
  /\ \E s \in hist.batch.sent : Val(data, s) = OracleText

\* C8: when the oracle call of all 3 attempts of a batch has failed,
\* failedBatches is one more than before the batch, every slot the batch
\* asked for holds the value it had before the batch, there is no fourth
\* attempt, and the run goes on (it aborts only on a rejected save).
C8_RetryExhaustion ==
  /\ hist.batch.outcomes = <<"fail", "fail", "fail">>
       => /\ counters.failedBatches = hist.batch.failedBefore + 1
          /\ \A s \in hist.batch.sent : Val(data, s) = Val(hist.batch.dataBefore, s)
          /\ pc \in {"attemptTop", "batchTop", "fileEnd", "fileTop", "saveCopies",
                     "afterScan", "autosave", "finalSave", "done", "fatal"}
          /\ pc = "attemptTop" => attempt = maxRetries
  /\ pc = "fatal" => saveRejected

\* A batch has exhausted its attempts and the next batch of the file is about
\* to be started.
C8_Witness ==
  /\ hist.batch.outcomes = <<"fail", "fail", "fail">>
  /\ pc = "batchTop"
  /\ batchIdx <= Len(batches)
  /\ ~interrupted
  /\ counters.failedBatches = 1

\* C10: when a run ends, the file at outputDir/inputFile is a whole copy of
\* the snapshot in memory; and the next run of the command counts as needing
\* work only the files that need work in that persisted snapshot.
C10_PersistedResult ==
  /\ pc = "done" => disk[outputFile(cfg)] = data
  /\ (run > 1 /\ hist.prev.persisted # NoFile /\ pc = "fileTop" /\ hist.scannedFiles = 0)
       => \A f \in Files :
            hasWork(data[f], cfg.requiredLangs)
              => hasWork(hist.prev.persisted[f], cfg.requiredLangs)

\* The first part alone: a run that ends leaves a whole copy of its snapshot.
C10_PersistedAtEnd ==
  pc = "done" => disk[outputFile(cfg)] = data

\* A run has ended with an oracle translation in a slot that was empty in the
\* input, and the file of that slot needs no more work in the persisted copy.
C10_Witness ==
  /\ pc = "done"
  /\ run = 1
  /\ \E s \in Slots :
       /\ s[3] = "ru"
       /\ Val(disk[inPath], s) = Null \/ ~cfg.outputIsInput
       /\ Val(disk[outputFile(cfg)], s) = OracleText
       /\ ~hasWork(disk[outputFile(cfg)][s[1]], cfg.requiredLangs)

\* The step in which an answer of the oracle arrives and is applied.
AnswerStep == pc = "call" /\ hist'.batch.outcomes = Append(hist.batch.outcomes, "ok")

InvalidEntries(results) ==
  {e \in ResultEntries(results) : ~HasContent(results[e[1]][e[2]])}

UnknownKeyEntries(results, keys) ==
  {e \in ResultEntries(results) : e[1] \notin DOMAIN keys}

C20_UnknownKeyResult ==
  [][AnswerStep =>
       LET res == hist'.batch.results
           f == FilePaths[fileIdx]
           unknown == UnknownKeyEntries(res, data[f])
       IN /\ \A s \in Slots :
               Val(data', s) # Val(data, s)
                 => s[1] = f /\ <<s[2], s[3]>> \in ResultEntries(res)
          /\ counters'.totalSkipped - counters.totalSkipped >= Cardinality(unknown)
          /\ counters'.totalApplied - counters.totalApplied
               <= Cardinality(ResultEntries(res) \ unknown)
          /\ pc' = "saveBatch"
          /\ counters'.failedBatches = counters.failedBatches]_vars

\* The same for answers whose unknown keys are not names that every object
\* inherits.
C20_OrdinaryUnknownKey ==
  [][(AnswerStep /\ DOMAIN hist'.batch.results \cap InheritedNames = {}) =>
       LET res == hist'.batch.results
           f == FilePaths[fileIdx]
           unknown == UnknownKeyEntries(res, data[f])
       IN /\ \A s \in Slots :
               Val(data', s) # Val(data, s)
                 => s[1] = f /\ <<s[2], s[3]>> \in ResultEntries(res)
          /\ counters'.totalSkipped - counters.totalSkipped >= Cardinality(unknown)
          /\ counters'.totalApplied - counters.totalApplied
               <= Cardinality(ResultEntries(res) \ unknown)
          /\ pc' = "saveBatch"
          /\ counters'.failedBatches = counters.failedBatches]_vars

\* An answer that held a key of another file and a key of no file was taken:
\* nothing was applied, its entries were skipped, the batch was left behind.
C20_OrdinaryWitness ==
  /\ pc = "batchTop"
  /\ batchIdx >= 2
  /\ hist.batch.outcomes = <<"ok">>
  /\ UnknownKey \in DOMAIN hist.batch.results
  /\ DOMAIN hist.batch.results \cap OtherFileKeys(FilePaths[fileIdx]) # {}
  /\ hist.batch.dataBefore = data
  /\ counters.totalSkipped >= Cardinality(ResultEntries(hist.batch.results))
  /\ counters.failedBatches = 0

\* The step in which an oracle call of the orchestrator throws.
FailStep == pc = "call" /\ hist'.batch.outcomes = Append(hist.batch.outcomes, "fail")

\* The slots asked for in a call that the answer has no valid text for.
OmittedSlots(sent, results) ==
  {s \in sent : ~(/\ s[2] \in DOMAIN results
                  /\ s[3] \in DOMAIN results[s[2]]
                  /\ hasValidTranslationValue(results[s[2]][s[3]]))}

\* C21: an answer that parses is a success whatever it omits: each slot asked
\* for takes the returned text when the answer has a valid one and stays as it
\* was when the answer omits it, the attempt is not repeated and the batch is
\* not counted as failed; a call that throws fails as a whole: no slot changes
\* and no entry is counted as applied or skipped, the attempt is counted.  A
\* call whose exchange is answered, completely or not, does not throw.
C21_PartialResults ==
  /\ [][(pc = "call" /\ pc' # pc /\ hist'.batch.kind # "throw") => AnswerStep]_vars
  /\ [][AnswerStep =>
          LET res == hist'.batch.results
              sent == hist'.batch.sent
          IN /\ \A s \in OmittedSlots(sent, res) : Val(data', s) = Val(data, s)
             /\ \A s \in sent \ OmittedSlots(sent, res) : Val(data', s) = res[s[2]][s[3]]
             /\ pc' = "saveBatch"
             /\ attempt' = attempt
             /\ counters'.failedBatches = counters.failedBatches]_vars
  /\ [][FailStep =>
          /\ data' = data
          /\ counters'.totalApplied = counters.totalApplied
          /\ counters'.totalSkipped = counters.totalSkipped
          /\ attempt' = attempt + 1
          /\ pc' = "attemptTop"]_vars

\* An answer to the first attempt held one of the texts asked for: that slot
\* has it, another slot asked for is still without a valid value, and the run
\* has gone on to the next batch with no batch counted as failed.
C21_Witness ==
  /\ pc = "batchTop"
  /\ batchIdx >= 2
  /\ hist.batch.kind = "partial"
  /\ hist.batch.outcomes = <<"ok">>
  /\ counters.failedBatches = 0
  /\ \E s \in hist.batch.sent \ OmittedSlots(hist.batch.sent, hist.batch.results) :
       Val(data, s) = hist.batch.results[s[2]][s[3]]
  /\ \E s \in OmittedSlots(hist.batch.sent, hist.batch.results) :
       ~hasValidTranslationValue(Val(data, s))

(***************************************************************************)
(* The Translator object on its own (src/translator.ts): calls of          *)
(* translateFileBatch on one instance, every exchange with the server a    *)
(* step.  tr.pc is "idle" between calls, "callLlm" when callLlm is about   *)
(* to run, and "reload", "settle" or "fetch" while the call is suspended   *)
(* in the reload request, the settle delay or the translate request.       *)
(***************************************************************************)
MaxCalls == 3

MaxExchanges == 5

ItemA ==
  [key |-> "k1", fileName |-> "f1", context |-> [l \in {"en"} |-> Hello], targets |-> <<"ru">>]

ItemB ==
  [key |-> "k2", fileName |-> "f1", context |-> [l \in {"en"} |-> Hello],
   targets |-> <<"ru", "tr">>]

ItemC ==
  [key |-> "k3", fileName |-> "f1", context |-> [l \in {"en"} |-> LongText],
   targets |-> <<"ru">>]

TranslatorItems == {ItemA, ItemB, ItemC}

TranslatorBatches ==
  {<<>>} \cup {<<x>> : x \in TranslatorItems}
         \cup {b \in {<<x, y>> : x \in TranslatorItems, y \in TranslatorItems} :
                 b[1] # b[2]}

Backends == {"local-server", "api"}

ReloadSettings == {0, 1, 2, 3}

\* What one translate exchange gives: a failure (transport error or a text
\* that does not parse), or an answer of one of these shapes.
ExchangeOutcomes == {"fail", "full", "empty", "mixed"}

ReloadOutcomes == {"reloadOk", "reloadNotOk", "reloadThrew"}

FreshTranslator(backend, reloadEvery, maxResponseTokens) ==
  [pc |-> "idle", backend |-> backend, reloadEvery |-> reloadEvery,
   maxResponseTokens |-> maxResponseTokens, batchCount |-> 0, calls |-> 0,
   items |-> <<>>, mode |-> "none", i |-> 0, j |-> 0, tries |-> 0,
   result |-> NoResults, outcome |-> "none", exch |-> <<>>, log |-> <<>>]

trRest ==
  <<data, langOrder, lastOp, subs, passes, written, items, limits, batches, saves, runVars>>

InitTranslator ==
  /\ tr \in {FreshTranslator(b, n, m) :
               b \in Backends, n \in ReloadSettings, m \in ResponseTokenSettings}
  /\ data = NoFile
  /\ langOrder = UniformOrder
  /\ lastOp = "translator"
  /\ subs = 0
  /\ passes = <<>>
  /\ written = {}
  /\ items = <<>>
  /\ limits = <<>>
  /\ batches = <<>>
  /\ Idle

Translates(log) == Cardinality({p \in 1..Len(log) : log[p] = "translate"})

\* Lines 107-113 and 78: the items the prompt of the exchange carries.
CurrentPrompt(t) ==
  IF t.mode = "split"
  THEN <<[t.items[t.i] EXCEPT !.targets = <<t.items[t.i].targets[t.j]>>]>>
  ELSE t.items

\* Lines 250-254: the translate request is sent.
SendTranslate(t) ==
  [t EXCEPT !.pc = "fetch",
            !.exch = Append(@, [prompt |-> CurrentPrompt(t), out |-> "pending"]),
            !.log = Append(@, "translate")]

\* Lines 55-76: translateFileBatch is called.
Invoke ==
  /\ tr.pc = "idle"
  /\ tr.calls < MaxCalls
  /\ \E its \in TranslatorBatches :
       LET t == [tr EXCEPT !.calls = @ + 1, !.items = its, !.exch = <<>>,
                           !.result = NoResults, !.outcome = "none",
                           !.i = 0, !.j = 0, !.tries = 0]
       IN tr' = IF Len(its) = 0
                THEN [t EXCEPT !.mode = "empty", !.outcome = "returned"]
                ELSE IF hasHugeKeys(its, tr.maxResponseTokens) /\ Len(its[1].targets) > 1
                THEN [t EXCEPT !.mode = "split", !.i = 1, !.j = 1, !.pc = "callLlm",
                               !.result = [k \in {its[1].key} |-> NoResults]]
                ELSE [t EXCEPT !.mode = "combined", !.tries = 1, !.pc = "callLlm"]
  /\ UNCHANGED trRest

reloadDueEveryCall(batchCount, reloadEvery) == batchCount > 1

\* Line 220.
reloadDue(batchCount, reloadEvery) == batchCount > 1 /\ batchCount % reloadEvery = 1

\* Lines 152-160 and 213-223: callLlm up to its first await.
CallLlm ==
  /\ tr.pc = "callLlm"
  /\ Translates(tr.log) < MaxExchanges
  /\ IF tr.backend = "local-server" /\ tr.reloadEvery > 0
     THEN \E counted \in {[tr EXCEPT !.batchCount = @ + 1]} :
            tr' = IF reloadDue(counted.batchCount, tr.reloadEvery)
                  THEN [counted EXCEPT !.pc = "reload"]
                  ELSE SendTranslate(counted)
     ELSE tr' = SendTranslate(tr)
  /\ UNCHANGED trRest

\* Lines 223-236: the reload request settles.
ReloadReturns ==
  /\ tr.pc = "reload"
  /\ \E r \in ReloadOutcomes :
       tr' = IF r = "reloadOk"
             THEN [tr EXCEPT !.pc = "settle", !.log = Append(@, r)]
             ELSE SendTranslate([tr EXCEPT !.log = Append(@, r)])
  /\ UNCHANGED trRest

\* Lines 229-231: the 8000 ms wait after a reload is over.
SettleElapsed ==
  /\ tr.pc = "settle"
  /\ tr' = SendTranslate([tr EXCEPT !.log = Append(@, "settle")])
  /\ UNCHANGED trRest

combinedAfterFailureNoRetry(t) == [t EXCEPT !.outcome = "threw", !.pc = "idle"]

\* Lines 92-96: the catch block repeats the exchange once; a failure of the
\* repetition leaves translateFileBatch as its error.
combinedAfterFailure(t) ==
  IF t.tries = 1 THEN [t EXCEPT !.tries = 2, !.pc = "callLlm"]
  ELSE [t EXCEPT !.outcome = "threw", !.pc = "idle"]

\* Lines 102-132: the loops go on with the next language, the next item, or
\* return the result.
splitAdvance(t) ==
  IF t.j < Len(t.items[t.i].targets) THEN [t EXCEPT !.j = @ + 1, !.pc = "callLlm"]
  ELSE IF t.i < Len(t.items)
  THEN [t EXCEPT !.i = @ + 1, !.j = 1, !.pc = "callLlm",
                 !.result = [k \in DOMAIN t.result \cup {t.items[t.i + 1].key} |->
                               IF k = t.items[t.i + 1].key THEN NoResults ELSE t.result[k]]]
  ELSE [t EXCEPT !.outcome = "returned", !.pc = "idle"]

\* Lines 120-124: the text of the exchange is stored when the answer has one.
splitStore(t, out) ==
  LET key == t.items[t.i].key
      lang == t.items[t.i].targets[t.j]
      processed == OracleAnswer(CurrentPrompt(t), out)
  IN IF /\ out # "fail"
        /\ key \in DOMAIN processed
        /\ lang \in DOMAIN processed[key]
        /\ processed[key][lang] # <<>>
     THEN [t EXCEPT !.result =
             [k \in DOMAIN t.result |->
                IF k = key
                THEN [l \in DOMAIN t.result[k] \cup {lang} |->
                        IF l = lang THEN processed[key][lang] ELSE t.result[k][l]]
                ELSE t.result[k]]]
     ELSE t

\* Lines 89-96 and 118-128: the translate request settles.
FetchReturns ==
  /\ tr.pc = "fetch"
  /\ \E out \in ExchangeOutcomes :
       \E t \in {[tr EXCEPT !.exch[Len(tr.exch)].out = out]} :
         tr' = IF tr.mode = "split" THEN splitAdvance(splitStore(t, out))
               ELSE IF out = "fail" THEN combinedAfterFailure(t)
               ELSE [t EXCEPT !.result = OracleAnswer(t.items, out),
                              !.outcome = "returned", !.pc = "idle"]
  /\ UNCHANGED trRest

NextTranslator ==
  \/ Invoke
  \/ CallLlm
  \/ ReloadReturns
  \/ SettleElapsed
  \/ FetchReturns

SpecTranslator == InitTranslator /\ [][NextTranslator]_vars

\* An item whose own estimated response exceeds half of maxResponseTokens
\* and that has more than one target language.
OversizedMultiTarget(item, maxResponseTokens) ==
  /\ estimateResponseTokens(<<item>>) * 2 > maxResponseTokens
  /\ Len(item.targets) > 1

\* The exchanges of the call in progress that carry the item.
CarriedIn(item, exch) ==
  {x \in 1..Len(exch) : \E m \in 1..Len(exch[x].prompt) : exch[x].prompt[m].key = item.key}

SplitFor(item) ==
  /\ \A x \in CarriedIn(item, tr.exch) :
       /\ Len(tr.exch[x].prompt) = 1
       /\ Len(tr.exch[x].prompt[1].targets) = 1
  /\ tr.outcome # "none" =>
       \A l \in Range(item.targets) :
         \E x \in 1..Len(tr.exch) : tr.exch[x].prompt = <<[item EXCEPT !.targets = <<l>>]>>

\* C22: for every item of the batch of a translateFileBatch call that is
\* oversized and has more than one target language, wherever it stands in the
\* batch, every exchange that carries the item carries it alone with a single
\* target, and when the call has ended there was one such exchange for each
\* of its targets.
C22_OversizedSplit ==
  \A n \in 1..Len(tr.items) :
    OversizedMultiTarget(tr.items[n], tr.maxResponseTokens) => SplitFor(tr.items[n])

\* The same when the first item of the batch has more than one target.
C22_FirstItemMultiTarget ==
  \A n \in 1..Len(tr.items) :
    (OversizedMultiTarget(tr.items[n], tr.maxResponseTokens) /\ Len(tr.items[1].targets) > 1)
      => SplitFor(tr.items[n])

\* A call with an oversized two-target item and a second item has returned
\* after one exchange per item and language.
C22_FirstItemWitness ==
  /\ tr.outcome = "returned"
  /\ tr.mode = "split"
  /\ Len(tr.items) = 2
  /\ OversizedMultiTarget(tr.items[1], tr.maxResponseTokens)
  /\ Len(tr.exch) = 3
  /\ \A x \in 1..3 : Len(tr.exch[x].prompt) = 1 /\ Len(tr.exch[x].prompt[1].targets) = 1

\* The call at hand goes through translateHugeKeysByLanguage (line 68).
SplitMode(batch) ==
  hasHugeKeys(batch, limits.maxResponseTokens) /\ Len(batch[1].targets) > 1

\* The step in which translateFileBatch settles, either way.
CallSettles == pc = "call" /\ pc' # pc

\* C23: a translateFileBatch call in the per-language mode never throws,
\* whatever exchanges fail: the orchestrator applies what it returns, goes to
\* the save of the batch, does not repeat the attempt and does not count the
\* batch as failed.  When only the first exchange fails, the text of every
\* other language asked for is returned and applied; when every exchange
\* fails, nothing is returned and no slot changes.
C23_PerLanguageTolerance ==
  [][(CallSettles /\ SplitMode(batches[batchIdx])) =>
       LET batch == batches[batchIdx]
           res == hist'.batch.results
           kind == hist'.batch.kind
           f == FilePaths[fileIdx]
       IN /\ AnswerStep
          /\ pc' = "saveBatch"
          /\ attempt' = attempt
          /\ counters'.failedBatches = counters.failedBatches
          /\ DOMAIN res = BatchKeys(batch)
          /\ kind = "throw" =>
               /\ ResultEntries(res) = {}
               /\ data' = data
               /\ counters'.totalApplied = counters.totalApplied
          /\ kind = "failFirst" =>
               /\ ResultEntries(res) =
                    UNION {{<<batch[i].key, l>> : l \in Range(batch[i].targets)} :
                             i \in 1..Len(batch)}
                      \ {<<batch[1].key, batch[1].targets[1]>>}
               /\ data'[f][batch[1].key][batch[1].targets[1]]
                    = data[f][batch[1].key][batch[1].targets[1]]
               /\ \A e \in ResultEntries(res) : data'[f][e[1]][e[2]] = OracleText]_vars

\* A per-language call whose first exchange failed has been applied and
\* saved: the language of the failed exchange is still missing, the other
\* one has its text, and the run is at the next batch with nothing retried
\* and no batch counted as failed.
C23_Witness ==
  /\ pc = "batchTop"
  /\ batchIdx >= 2
  /\ SplitMode(batches[batchIdx - 1])
  /\ hist.batch.kind = "failFirst"
  /\ hist.batch.outcomes = <<"ok">>
  /\ counters.failedBatches = 0
  /\ LET item == batches[batchIdx - 1][1]
         f == FilePaths[fileIdx]
     IN /\ ~hasValidTranslationValue(data[f][item.key][item.targets[1]])
        /\ data[f][item.key][item.targets[2]] = OracleText

\* A per-language call in which every exchange failed has been taken as a
\* success with nothing to apply.
C23_AllFailedWitness ==
  /\ pc = "batchTop"
  /\ batchIdx >= 2
  /\ SplitMode(batches[batchIdx - 1])
  /\ hist.batch.kind = "throw"
  /\ hist.batch.outcomes = <<"ok">>
  /\ hist.batch.dataBefore = data
  /\ counters.failedBatches = 0

\* The Translator object in the per-language mode: the call never ends with
\* an error, and when it returns there was one exchange per item and target
\* and the result holds a text exactly for the exchanges that gave one.
C23_SplitNeverThrows ==
  tr.mode = "split" =>
    /\ tr.outcome # "threw"
    /\ tr.outcome = "returned" =>
         /\ Len(tr.exch) = SumSeq([m \in 1..Len(tr.items) |-> Len(tr.items[m].targets)])
         /\ DOMAIN tr.result = BatchKeys(tr.items)
         /\ \A x \in 1..Len(tr.exch) :
              LET item == tr.exch[x].prompt[1]
              IN (item.targets[1] \in DOMAIN tr.result[item.key]) <=> (tr.exch[x].out = "full")

C23_SplitWitness ==
  /\ tr.mode = "split"
  /\ tr.outcome = "returned"
  /\ Len(tr.items) = 2
  /\ tr.exch[1].out = "fail"
  /\ tr.exch[2].out = "full"
  /\ tr.exch[3].out = "full"

\* A key with a valid value longer than the ceiling.
LongKey(langs) ==
  \E l \in DOMAIN langs :
    hasValidTranslationValue(langs[l]) /\ StrLen(langs[l]) > MAX_KEY_LENGTH

\* A key the oracle is to be asked about: it has a valid value, none over
\* the ceiling, and a required language without a valid value.
KeyToTranslate(langs, requiredLangs) ==
  /\ \E l \in DOMAIN langs : hasValidTranslationValue(langs[l])
  /\ ~LongKey(langs)
  /\ \E n \in 1..Len(requiredLangs) : ~hasValidTranslationValue(langs[requiredLangs[n]])

\* The step in which a file is scanned.
ScanStep == pc = "fileTop" /\ hist'.scannedFiles = hist.scannedFiles + 1

\* The step in which the input is loaded and the pre-scan made.
LoadStep == pc = "load" /\ pc' = "fileTop"

\* C24: the scan of a file makes no item for a key that has a valid value
\* longer than 2048 characters; every batch waiting to be sent and every
\* request that was sent carries only context values of at most 2048
\* characters; and the pre-scan counts, as keys and as files with work, only
\* keys without such a value.
C24_LongValuesNotSent ==
  /\ [][ScanStep =>
          \A k \in DOMAIN data[FilePaths[fileIdx]] :
            LongKey(data[FilePaths[fileIdx]][k])
              => \A i \in 1..Len(items') : items'[i].key # k]_vars
  /\ [](\A b \in 1..Len(batches) : \A i \in 1..Len(batches[b]) :
          \A l \in DOMAIN batches[b][i].context :
            StrLen(batches[b][i].context[l]) <= MAX_KEY_LENGTH)
  /\ [][CallSettles =>
          \A i \in 1..Len(batches[batchIdx]) :
            \A l \in DOMAIN batches[batchIdx][i].context :
              StrLen(batches[batchIdx][i].context[l]) <= MAX_KEY_LENGTH]_vars
  /\ [][LoadStep =>
          /\ counters'.totalMissingKeys =
               Cardinality({p \in Range(KeyPairs) :
                              KeyToTranslate(data'[p[1]][p[2]], cfg.requiredLangs)})
          /\ counters'.filesNeedWork =
               Cardinality({f \in Files :
                              \E k \in DOMAIN data'[f] :
                                KeyToTranslate(data'[f][k], cfg.requiredLangs)})]_vars

\* A file with a key holding a value over the ceiling and a key to translate
\* has been scanned and its batch answered: the long key was not in the
\* request, and the pre-scan counted fewer keys than have a missing language.
C24_Witness ==
  /\ pc = "saveBatch"
  /\ hist.batch.outcomes = <<"ok">>
  /\ \E k \in DOMAIN data[FilePaths[fileIdx]] :
       /\ LongKey(data[FilePaths[fileIdx]][k])
       /\ \A s \in hist.batch.sent : s[2] # k
  /\ hist.batch.sent # {}
  /\ counters.totalMissingKeys
       < Cardinality({p \in Range(KeyPairs) :
                        \E n \in 1..Len(cfg.requiredLangs) :
                          ~hasValidTranslationValue(
                             disk[inPath][p[1]][p[2]][cfg.requiredLangs[n]])})

\* A key whose value over the ceiling came from the oracle in the run before
\* is left out of the requests of this run.
C24_LongAnswerWitness ==
  /\ run = 2
  /\ pc = "done"
  /\ \E s \in Slots :
       /\ Val(data, s) = LongAnswer
       /\ \A t \in hist.requested : <<t[1], t[2]>> # <<s[1], s[2]>>
       /\ \E l \in Langs : Val(hist.prev.persisted, <<s[1], s[2], l>>) # Val(data, <<s[1], s[2], l>>)

\* The number, among the translate requests, of the one at position p.
NthTranslate(log, p) == Cardinality({q \in 1..p : log[q] = "translate"})

\* The translate request at position p comes right after a reload: after a
\* reload that failed, or after the settle delay of one that succeeded.
ReloadBefore(log, p) ==
  IF p = 1 THEN FALSE ELSE log[p - 1] \in {"reloadNotOk", "reloadThrew", "settle"}

ReloadExpected(n, reloadEvery) ==
  IF reloadEvery = 0 THEN FALSE ELSE n > 1 /\ (n - 1) % reloadEvery = 0

ReloadDiscipline(log, reloadEvery) ==
  /\ \A p \in 1..Len(log) :
       log[p] = "translate"
         => (ReloadBefore(log, p) <=> ReloadExpected(NthTranslate(log, p), reloadEvery))
  /\ \A p \in 1..Len(log) :
       /\ log[p] \in ReloadOutcomes => p > 1 /\ log[p - 1] = "translate"
       /\ log[p] = "settle" => p > 1 /\ log[p - 1] = "reloadOk"
       /\ (log[p] = "reloadOk" /\ p < Len(log)) => log[p + 1] = "settle"
       /\ (log[p] \in {"reloadNotOk", "reloadThrew"} /\ p < Len(log))
            => log[p + 1] = "translate"

\* C25: with the local-server transport and reloadEveryBatches = N, the n-th
\* translate request of the Translator object comes right after a reload
\* exactly when N >= 1, n > 1 and n - 1 is a multiple of N; there is one
\* reload at a time, always after a translate request; after a reload that
\* succeeded the next request follows the settle delay and after one that
\* failed it follows at once; with N = 0 there is no reload.
C25_PeriodicReload ==
  tr.backend = "local-server" => ReloadDiscipline(tr.log, tr.reloadEvery)

\* The same for every setting other than N = 1.
C25_ReloadFromTwo ==
  (tr.backend = "local-server" /\ tr.reloadEvery # 1)
    => ReloadDiscipline(tr.log, tr.reloadEvery)

\* With N = 2 the third and the fifth request each came after a reload, one
\* that succeeded and was followed by the settle delay and one that failed.
C25_FromTwoWitness ==
  /\ tr.backend = "local-server"
  /\ tr.reloadEvery = 2
  /\ tr.log = <<"translate", "translate", "reloadOk", "settle", "translate",
                "translate", "reloadThrew", "translate">>

\* With N = 0 five requests were sent.
C25_NoReloadWitness ==
  /\ tr.backend = "local-server"
  /\ tr.reloadEvery = 0
  /\ Translates(tr.log) = MaxExchanges

\* C27: in a call on the combined path every exchange carries the whole
\* batch; there are at most two, and a second one only after the first
\* failed; the call returns the answer of the exchange that succeeded, and it
\* ends with an error only when both exchanges failed.  A call with an empty
\* list returns the empty result without any exchange.
C27_TranslatorRetry ==
  /\ tr.mode = "combined" =>
       /\ Len(tr.exch) <= 2
       /\ \A x \in 1..Len(tr.exch) : tr.exch[x].prompt = tr.items
       /\ Len(tr.exch) = 2 => tr.exch[1].out = "fail"
       /\ tr.outcome = "returned" =>
            /\ Len(tr.exch) >= 1
            /\ tr.exch[Len(tr.exch)].out \notin {"fail", "pending"}
            /\ tr.result = OracleAnswer(tr.items, tr.exch[Len(tr.exch)].out)
       /\ tr.outcome = "threw" =>
            /\ Len(tr.exch) = 2
            /\ tr.exch[2].out = "fail"
       /\ (tr.pc = "idle" /\ Len(tr.exch) = 1) => tr.exch[1].out # "fail"
  /\ tr.mode = "empty" =>
       /\ tr.exch = <<>>
       /\ tr.outcome = "returned"
       /\ tr.result = NoResults
       /\ tr.pc = "idle"

\* A combined call returned the answer of the repetition of its failed
\* exchange.
C27_Witness ==
  /\ tr.mode = "combined"
  /\ tr.outcome = "returned"
  /\ Len(tr.exch) = 2
  /\ tr.exch[1].out = "fail"
  /\ tr.exch[2].out = "full"
  /\ tr.result = OracleAnswer(tr.items, "full")

\* A combined call ended with the error of the repetition, and a call with
\* the empty list was made after it without a further exchange.
C27_EmptyWitness ==
  /\ tr.mode = "empty"
  /\ tr.calls >= 2
  /\ Translates(tr.log) = 2

\* Two keys hold the same text, after trimming, in one language.
SharesText(d, p, q) ==
  \E m \in Langs :
    /\ normalizeSourceText(d[p[1]][p[2]][m]) # Null
    /\ normalizeSourceText(d[p[1]][p[2]][m]) = normalizeSourceText(d[q[1]][q[2]][m])

\* C26 (the index): the index built from the snapshot holds, for every key
\* and every language in which the key has a text, an entry of that key
\* under that text.
C26_IndexEveryLanguage ==
  \A p \in Range(KeyPairs) : \A m \in Langs :
    normalizeSourceText(data[p[1]][p[2]][m]) # Null
      => \E i \in 1..Len(buildSourceTextIndex(data, langOrder, "en")) :
           LET e == buildSourceTextIndex(data, langOrder, "en")[i]
           IN /\ e.filePath = p[1]
              /\ e.key = p[2]
              /\ e.text = normalizeSourceText(data[p[1]][p[2]][m])

\* C26: a fill pass with a fresh index fills every missing slot of a key
\* without a primary-language text for which another key holds the same
\* text in some language and has the language of the slot.
C26_CrossLanguageDonor ==
  [][lastOp' = "fillGaps" =>
       \A p \in Range(KeyPairs) : \A l \in Langs :
         (/\ isMissing(data[p[1]][p[2]]["en"])
          /\ isMissing(data[p[1]][p[2]][l])
          /\ \E q \in Range(KeyPairs) :
               /\ q # p
               /\ SharesText(data, p, q)
               /\ ~isMissing(data[q[1]][q[2]][l]))
           => ~isMissing(data'[p[1]][p[2]][l])]_vars

\* The valid values of a key, and the required languages it lacks.
ValidValues(langs) ==
  [l \in {m \in DOMAIN langs : hasValidTranslationValue(langs[m])} |-> langs[l]]

LackingLangs(langs, requiredLangs) ==
  SelectSeq(requiredLangs, LAMBDA l : ~hasValidTranslationValue(langs[l]))

\* C28: the scan of a file makes, for every key of the file that has a valid
\* value, no value over the ceiling and a required language without a valid
\* value, exactly one item, with the file's name, the key's valid values as
\* context and the required languages lacking a valid value, in their order,
\* as targets; it makes no item for any other key; and a file whose scan made
\* no item is left without a batch being built or the oracle being called.
C28_Scan ==
  /\ [][ScanStep =>
          LET f == FilePaths[fileIdx]
              req == cfg.requiredLangs
          IN /\ \A k \in DOMAIN data[f] :
                  LET at == {i \in 1..Len(items') : items'[i].key = k}
                  IN IF KeyToTranslate(data[f][k], req)
                     THEN /\ Cardinality(at) = 1
                          /\ \A i \in at :
                               /\ items'[i].fileName = f
                               /\ items'[i].context = ValidValues(data[f][k])
                               /\ items'[i].targets = LackingLangs(data[f][k], req)
                     ELSE at = {}
             /\ \A i \in 1..Len(items') : items'[i].key \in DOMAIN data[f]]_vars
  /\ [][(pc = "afterScan" /\ Len(items) = 0) =>
          /\ pc' = "fileTop"
          /\ fileIdx' = fileIdx + 1
          /\ hist'.requested = hist.requested
          /\ hist'.startedBatches = hist.startedBatches]_vars
  /\ [](pc \in {"batchTop", "attemptTop", "backoff", "call", "saveBatch"} => Len(items) > 0)

\* The scan of a file made two items, one with both required languages as
\* targets and one with a single target and two context values, and none for
\* a key that is complete.
C28_Witness ==
  /\ pc = "afterScan"
  /\ Len(items) = 2
  /\ items[1].targets = cfg.requiredLangs
  /\ Len(items[2].targets) = 1
  /\ Cardinality(DOMAIN items[2].context) = 2
  /\ \A i \in 1..2 : items[i].context = ValidValues(data[FilePaths[fileIdx]][items[i].key])

\* A run has ended in which a file was scanned whose keys all had every
\* required language, and the oracle was not asked about that file.
C28_NoItemsWitness ==
  /\ pc = "done"
  /\ hist.scannedFiles = Len(FilePaths)
  /\ hist.requested # {}
  /\ \E f \in Files :
       /\ \A t \in hist.requested : t[1] # f
       /\ \A k \in DOMAIN disk[inPath][f] : \A n \in 1..Len(cfg.requiredLangs) :
            hasValidTranslationValue(disk[inPath][f][k][cfg.requiredLangs[n]])

\* C29: the step that sets the stop flag changes nothing of the run: the
\* call or save in flight stays in flight.  With the flag set, an answer
\* that arrives is applied like any other and the run goes to the save of
\* the batch; a save that is not rejected writes the snapshot; the retry
\* loop goes on with its attempts; the file loop and the batch loop, at
\* their tops, are left; and a run that ends after its final save has the
\* snapshot, with what was applied, on disk.
C29_CooperativeCancel ==
  /\ [][(interrupted' /\ ~interrupted) =>
          /\ pc \in AwaitPcs
          /\ UNCHANGED <<pc, data, disk, items, batches, fileIdx, batchIdx, attempt,
                         counters, saveRejected>>]_vars
  /\ [][(interrupted /\ AnswerStep) =>
          /\ pc' = "saveBatch"
          /\ \A s \in hist'.batch.sent \ OmittedSlots(hist'.batch.sent, hist'.batch.results) :
               Val(data', s) = hist'.batch.results[s[2]][s[3]]]_vars
  /\ [][(interrupted /\ pc \in SavePcs /\ pc' # pc /\ ~saveRejected') =>
          /\ disk'[outputFile(cfg)] = data
          /\ data' = data]_vars
  /\ [][(interrupted /\ pc = "attemptTop" /\ attempt < maxRetries) =>
          pc' \in {"backoff", "call"}]_vars
  /\ [][(interrupted /\ pc = "backoff" /\ pc' # pc) => pc' = "call"]_vars
  /\ [][(interrupted /\ pc = "fileTop") => pc' = "finalSave"]_vars
  /\ [][(interrupted /\ pc = "batchTop") => pc' = "fileEnd"]_vars
  /\ [](pc = "done" /\ interrupted => disk[outputFile(cfg)] = data)

\* The stop flag was set while the first call of a batch was in flight; the
\* answer of that call was applied, and the run has ended, with a file not
\* yet scanned, after a final save that put the applied text on disk.
C29_Witness ==
  /\ pc = "done"
  /\ interrupted
  /\ hist.stoppedAt = "call"
  /\ hist.batch.outcomes = <<"ok">>
  /\ hist.startedBatches = 1
  /\ hist.scannedFiles < Len(FilePaths)
  /\ \E s \in hist.batch.sent :
       /\ Val(hist.batch.dataBefore, s) # OracleText
       /\ Val(data, s) = OracleText
       /\ Val(disk[outputFile(cfg)], s) = OracleText

\* The stop flag was set while the save of a batch was in flight, and that
\* save has written the snapshot.
C29_SaveWitness ==
  /\ pc = "batchTop"
  /\ interrupted
  /\ hist.stoppedAt = "saveBatch"
  /\ ~saveRejected
  /\ disk[outputFile(cfg)] = data
  /\ counters.totalApplied > 0

\* ---------------------------------------------------------------------
\* The interrupt handler on its own: the three signals it is registered
\* for and the callback of its timer, with the events in order of arrival.

MaxEvents == 5

\* Lines 139-141: the signals the handler is registered for.
Signals == {"SIGINT", "SIGTERM", "SIGHUP"}

interruptRest ==
  <<data, langOrder, lastOp, subs, passes, written, items, limits, batches, saves, tr,
    cfg, disk, run, pc, fileIdx, batchIdx, attempt, saveRejected, counters>>

\* Lines 62-65: the flag is unset and there is no timer.
InitInterrupt ==
  /\ tr = NoTranslator
  /\ data = NoFile
  /\ langOrder = UniformOrder
  /\ lastOp = "handler"
  /\ subs = 0
  /\ passes = <<>>
  /\ written = {}
  /\ items = <<>>
  /\ limits = <<>>
  /\ batches = <<>>
  /\ Idle

\* Lines 139-141 and 97-132: a signal of one of the three kinds runs the handler.
Deliver(sig) ==
  /\ Len(hist) < MaxEvents
  /\ interrupted' = onInterrupt(interrupted, interruptTimer).interrupted
  /\ interruptTimer' = onInterrupt(interrupted, interruptTimer).interruptTimer
  /\ hist' = Append(hist, sig)
  /\ UNCHANGED interruptRest

\* Lines 108-111: the callback of the timer, 3000 ms after it was set.
WindowExpires ==
  /\ Len(hist) < MaxEvents
  /\ interruptTimer
  /\ interruptTimer' = FALSE
  /\ hist' = Append(hist, "expiry")
  /\ UNCHANGED <<interrupted, interruptRest>>

NextInterrupt ==
  \/ \E sig \in Signals : Deliver(sig)
  \/ WindowExpires

SpecInterrupt == InitInterrupt /\ [][NextInterrupt]_vars

HandlerState(stop, timer) ==
  IF stop /\ ~timer THEN "stopped"
  ELSE IF ~stop /\ timer THEN "armed"
  ELSE IF ~stop /\ ~timer THEN "idle"
  ELSE "none"

\* C30: the handler is always idle, armed or stopped.  Every event is one
\* of: a signal, of any of the three kinds, that takes idle to armed; the
\* expiry of the window, that takes armed to idle; a signal that takes
\* armed to stopped; a signal that leaves stopped as it is.  In particular
\* a signal that follows an expiry arms again and does not stop.
C30_StateMachine ==
  /\ [](HandlerState(interrupted, interruptTimer) \in {"idle", "armed", "stopped"})
  /\ [][LET from == HandlerState(interrupted, interruptTimer)
             to == HandlerState(interrupted', interruptTimer')
             event == hist'[Len(hist')]
         IN  /\ hist' = Append(hist, event)
             /\ \/ from = "idle" /\ event \in Signals /\ to = "armed"
                \/ from = "armed" /\ event = "expiry" /\ to = "idle"
                \/ from = "armed" /\ event \in Signals /\ to = "stopped"
                \/ from = "stopped" /\ event \in Signals /\ to = "stopped"
             /\ (Len(hist) > 0 /\ hist[Len(hist)] = "expiry" /\ event \in Signals)
                  => to = "armed"]_vars
  /\ [](\A sig \in Signals : Len(hist) < MaxEvents => ENABLED Deliver(sig))

\* A signal, the expiry of its window, a signal that arms again, a signal
\* that stops, and a further signal: the three kinds have all arrived and
\* the handler is stopped.
C30_Witness ==
  /\ hist = <<"SIGINT", "expiry", "SIGTERM", "SIGHUP", "SIGINT">>
  /\ HandlerState(interrupted, interruptTimer) = "stopped"

\* The handler has gone from armed back to idle by the expiry of the window.
C30_ExpiryWitness ==
  /\ Len(hist) = 2
  /\ hist[2] = "expiry"
  /\ HandlerState(interrupted, interruptTimer) = "idle"

\* The same during a run, from its start to the return of its final save:
\* the handler is idle, armed or stopped, a signal moves it as above and
\* the expiry of the window takes armed to idle.
C30_DuringRun ==
  /\ [](pc \in AwaitPcs => HandlerState(interrupted, interruptTimer) \in {"idle", "armed", "stopped"})
  /\ [][(pc' \notin {"done", "load"}
          /\ <<interrupted', interruptTimer'>> # <<interrupted, interruptTimer>>) =>
         LET from == HandlerState(interrupted, interruptTimer)
             to == HandlerState(interrupted', interruptTimer')
             signal == hist'.signals = hist.signals + 1
         IN  \/ from = "idle" /\ signal /\ to = "armed"
             \/ from = "armed" /\ ~signal /\ to = "idle"
             \/ from = "armed" /\ signal /\ to = "stopped"]_vars
  /\ [][(interrupted /\ pc' # "load") => (interrupted' /\ ~interruptTimer')]_vars

\* ---------------------------------------------------------------------
\* One iteration of the scan loop on its own: a key over four languages,
\* each absent, null, blank, short or longer than the ceiling, with its
\* languages in one of three insertion orders.

ScanLangs == {"en", "ru", "tr", "de"}

ScanOrders == {<<"en", "ru", "tr", "de">>, <<"de", "tr", "ru", "en">>, <<"tr", "de", "en", "ru">>}

ScanRequired == {<<"ru", "tr">>, <<"en", "de", "tr">>}

ScanKinds == {"absent", "null", "blank", "short", "huge"}

\* The value of the given kind of a language; the texts of two languages differ.
ScanValue(l, kind) ==
  IF kind = "null" THEN Null
  ELSE IF kind = "blank" THEN OneSpace
  ELSE IF kind = "short" THEN Str(l, 1)
  ELSE Str(l, MAX_KEY_LENGTH + 1)

ScanRow(kinds) ==
  [l \in {m \in ScanLangs : kinds[m] # "absent"} |-> ScanValue(l, kinds[l])]

scanRest ==
  <<subs, passes, written, limits, batches, saves, tr, cfg, disk, run, pc, fileIdx,
    batchIdx, attempt, interrupted, interruptTimer, saveRejected, counters>>

InitScan ==
  /\ \E kinds \in [ScanLangs -> ScanKinds], o \in ScanOrders :
       /\ data = ScanRow(kinds)
       /\ langOrder = SelectSeq(o, LAMBDA l : kinds[l] # "absent")
  /\ cfg \in [requiredLangs : ScanRequired, outputIsInput : {TRUE}, guarded : {FALSE}]
  /\ disk = [p \in {"in", "out"} |-> NoFile]
  /\ lastOp = "load"
  /\ hist = [before |-> <<>>, copied |-> FALSE]
  /\ items = <<>>
  /\ subs = 0
  /\ passes = <<>>
  /\ written = {}
  /\ limits = <<>>
  /\ batches = <<>>
  /\ tr = NoTranslator
  /\ run = 0
  /\ pc = "off"
  /\ fileIdx = 0
  /\ batchIdx = 0
  /\ attempt = 0
  /\ interrupted = FALSE
  /\ interruptTimer = FALSE
  /\ saveRejected = FALSE
  /\ saves = <<>>
  /\ counters = <<>>

\* Lines 201-238: the iteration of the scan loop for the key.
ScanOneKey ==
  /\ lastOp = "load"
  /\ LET sc == ScanKeyIn("f1", "k1", data, cfg.requiredLangs, langOrder)
     IN /\ data' = sc.langs
        /\ items' = sc.item
        /\ langOrder' = langOrder \o SelectSeq(cfg.requiredLangs,
                                               LAMBDA l : l \in DOMAIN sc.langs \ DOMAIN data)
        /\ hist' = [before |-> data, copied |-> sc.copied]
  /\ lastOp' = "scan"
  /\ UNCHANGED scanRest

NextScan == ScanOneKey

SpecScan == InitScan /\ [][NextScan]_vars

\* The language holds a valid value.
HoldsValid(langs, l) == l \in DOMAIN langs /\ hasValidTranslationValue(langs[l])

\* The value of en if valid, else of ru if valid, else the first valid one in
\* the order of iteration.
PreferredCopy(langs, order) ==
  IF HoldsValid(langs, "en") THEN langs["en"]
  ELSE IF HoldsValid(langs, "ru") THEN langs["ru"]
  ELSE langs[order[CHOOSE i \in 1..Len(order) :
                     /\ HoldsValid(langs, order[i])
                     /\ \A j \in 1..(i - 1) : ~HoldsValid(langs, order[j])]]

\* C31: the scan of a key with a valid value over the ceiling gives every
\* required language without a valid value the preferred existing value
\* (en, else ru, else the first valid in iteration order), writes no other
\* slot, creates no language that is not required, leaves every valid value
\* as it was and makes no item.
C31_LongKeyCopy ==
  [][(lastOp' = "scan" /\ LongKey(data)) =>
       /\ \A l \in Range(cfg.requiredLangs) :
            ~HoldsValid(data, l) => (l \in DOMAIN data' /\ data'[l] = PreferredCopy(data, langOrder))
       /\ \A l \in DOMAIN data :
            (HoldsValid(data, l) \/ l \notin Range(cfg.requiredLangs)) => data'[l] = data[l]
       /\ DOMAIN data' = DOMAIN data \cup {l \in Range(cfg.requiredLangs) : ~HoldsValid(data, l)}
       /\ items' = <<>>]_vars

\* The value over the ceiling is that of tr, de is valid and comes first in
\* the iteration, en is blank and ru null: ru took the text of de, the absent
\* or blank required languages too, and de and tr are as they were.
C31_Witness ==
  /\ lastOp = "scan"
  /\ hist.copied
  /\ LongKey(hist.before)
  /\ cfg.requiredLangs = <<"en", "de", "tr">>
  /\ langOrder[1] = "de"
  /\ ~HoldsValid(hist.before, "en")
  /\ ~HoldsValid(hist.before, "ru")
  /\ HoldsValid(hist.before, "de")
  /\ HoldsValid(hist.before, "tr")
  /\ hist.before["de"] = Str("de", 1)
  /\ hist.before["tr"] = Str("tr", MAX_KEY_LENGTH + 1)
  /\ data["en"] = Str("de", 1)
  /\ data["de"] = Str("de", 1)
  /\ data["tr"] = Str("tr", MAX_KEY_LENGTH + 1)

\* en is short and valid, the value over the ceiling is that of tr, and ru,
\* which the key did not have, was created with the text of en.
C31_PreferredWitness ==
  /\ lastOp = "scan"
  /\ hist.copied
  /\ cfg.requiredLangs = <<"ru", "tr">>
  /\ "ru" \notin DOMAIN hist.before
  /\ HoldsValid(hist.before, "en")
  /\ hist.before["en"] = Str("en", 1)
  /\ HoldsValid(hist.before, "tr")
  /\ StrLen(hist.before["tr"]) > MAX_KEY_LENGTH
  /\ langOrder[1] = "tr"
  /\ data["ru"] = Str("en", 1)

\* ---------------------------------------------------------------------
\* The file loop over more files than the autosave period.  The snapshot is
\* represented by the number of writes made to it (data) and the file by
\* the number the snapshot had at the last completed write (disk).  Each
\* file is scanned with or without long-key copies and with or without
\* items; the items of a file make one batch; no signal arrives.

NumFiles == 12

checkpointRest ==
  <<langOrder, lastOp, subs, passes, written, limits, batches, saves, tr, cfg, run, batchIdx,
    interrupted, interruptTimer>>

InitCheckpoint ==
  /\ data = 0
  /\ disk = 0
  /\ pc = "fileTop"
  /\ fileIdx = 1
  /\ attempt = 0
  /\ items = <<>>
  /\ saveRejected = FALSE
  /\ counters = [translatedFiles |-> 0]
  /\ hist = [fileHadCopies |-> FALSE, fileApplied |-> FALSE, unsavedFiles |-> 0,
             callsOfFile |-> 0, writes |-> 0]
  /\ cfg = [requiredLangs |-> <<"ru", "tr">>, outputIsInput |-> TRUE, guarded |-> FALSE]
  /\ langOrder = <<>>
  /\ lastOp = "run"
  /\ subs = 0
  /\ passes = <<>>
  /\ written = {}
  /\ limits = <<>>
  /\ batches = <<>>
  /\ tr = NoTranslator
  /\ run = 1
  /\ batchIdx = 0
  /\ interrupted = FALSE
  /\ interruptTimer = FALSE
  /\ saves = <<>>

\* Lines 193-240: the next file is scanned; its long-key copies are writes
\* to the snapshot.  After the last file the final save starts (line 332).
NextFileScanned ==
  /\ pc = "fileTop"
  /\ IF fileIdx <= NumFiles /\ ~interrupted
     THEN \E fileHadCopies \in BOOLEAN, n \in {0, 1} :
            /\ data' = IF fileHadCopies THEN data + 1 ELSE data
            /\ items' = [i \in 1..n |-> "item"]
            /\ hist' = [hist EXCEPT !.fileHadCopies = fileHadCopies,
                                    !.fileApplied = FALSE,
                                    !.callsOfFile = 0]
            /\ pc' = IF fileHadCopies THEN "saveCopies" ELSE "afterScan"
     ELSE /\ pc' = "finalSave"
          /\ UNCHANGED <<data, items, hist>>
  /\ UNCHANGED <<disk, fileIdx, attempt, saveRejected, counters, checkpointRest>>

\* Lines 243-269: a file without items is skipped; else its batch is started.
ItemsChecked ==
  /\ pc = "afterScan"
  /\ IF Len(items) = 0
     THEN fileIdx' = fileIdx + 1 /\ pc' = "fileTop" /\ UNCHANGED attempt
     ELSE attempt' = 0 /\ pc' = "call" /\ UNCHANGED fileIdx
  /\ UNCHANGED <<data, disk, items, saveRejected, counters, hist, checkpointRest>>

\* Lines 266-311: the call of the oracle returns, and its results are written
\* to the snapshot before saveResult is called, or it throws.
BatchCallSettles ==
  /\ pc = "call"
  /\ \E threw \in BOOLEAN :
       IF threw
       THEN /\ attempt' = attempt + 1
            /\ pc' = IF attempt + 1 < maxRetries THEN "call" ELSE "fileEnd"
            /\ hist' = [hist EXCEPT !.callsOfFile = @ + 1]
            /\ UNCHANGED data
       ELSE /\ data' = data + 1
            /\ pc' = "saveBatch"
            /\ hist' = [hist EXCEPT !.callsOfFile = @ + 1,
                                    !.fileApplied = TRUE,
                                    !.unsavedFiles = IF hist.fileApplied THEN @ ELSE @ + 1]
            /\ UNCHANGED attempt
  /\ UNCHANGED <<disk, items, fileIdx, saveRejected, counters, checkpointRest>>

\* Lines 75-94: a saveResult call settles; after a rejected save every later
\* one is rejected.  A rejection of the save of a batch is caught by the
\* retry loop (304-311), any other ends the run (353-356).
CheckpointSaveSettles ==
  /\ pc \in SavePcs
  /\ \E ok \in BOOLEAN :
       /\ ok => ~saveRejected
       /\ IF ok
          THEN /\ disk' = data
               /\ pc' = CASE pc = "saveCopies" -> "afterScan"
                          [] pc = "saveBatch" -> "fileEnd"
                          [] pc = "autosave" -> "fileTop"
                          [] pc = "finalSave" -> "done"
               /\ fileIdx' = IF pc = "autosave" THEN fileIdx + 1 ELSE fileIdx
               /\ hist' = [hist EXCEPT !.unsavedFiles = 0, !.fileApplied = FALSE,
                                       !.writes = IF @ < 2 THEN @ + 1 ELSE @]
               /\ UNCHANGED <<saveRejected, attempt>>
          ELSE /\ saveRejected' = TRUE
               /\ IF pc = "saveBatch"
                  THEN /\ attempt' = attempt + 1
                       /\ pc' = IF attempt + 1 < maxRetries THEN "call" ELSE "fileEnd"
                  ELSE pc' = "fatal" /\ UNCHANGED attempt
               /\ UNCHANGED <<disk, fileIdx, hist>>
  /\ UNCHANGED <<data, items, counters, checkpointRest>>

\* Lines 315-322: the file is counted; every tenth counted file is autosaved.
FileCounted ==
  /\ pc = "fileEnd"
  /\ counters' = [counters EXCEPT !.translatedFiles = @ + 1]
  /\ IF autosaveDue(counters'.translatedFiles)
     THEN pc' = "autosave" /\ UNCHANGED fileIdx
     ELSE pc' = "fileTop" /\ fileIdx' = fileIdx + 1
  /\ UNCHANGED <<data, disk, items, attempt, saveRejected, hist, checkpointRest>>

NextCheckpoint ==
  \/ NextFileScanned
  \/ ItemsChecked
  \/ BatchCallSettles
  \/ CheckpointSaveSettles
  \/ FileCounted

SpecCheckpoint == InitCheckpoint /\ [][NextCheckpoint]_vars

\* C32: after a scan that made a long-key copy the run waits for a save, and
\* reaches the oracle call of that file only through a completed write of
\* the snapshot as the scan left it; the file counted as the tenth,
\* twentieth, ... file with items is followed by a save, which the run
\* leaves only by a completed write or by ending; and the files whose
\* applied results the file on disk lacks are never more than ten.
C32_Checkpoints ==
  /\ [][(pc = "fileTop" /\ data' # data) => pc' = "saveCopies"]_vars
  /\ [][(pc = "saveCopies" /\ pc' # pc) =>
          \/ pc' = "afterScan" /\ disk' = data /\ data' = data
          \/ pc' = "fatal"]_vars
  /\ [](pc = "call" /\ hist.fileHadCopies /\ hist.callsOfFile = 0 => disk = data)
  /\ [][(pc = "fileEnd" /\ counters'.translatedFiles % AUTOSAVE_EVERY_FILES = 0) =>
          pc' = "autosave"]_vars
  /\ [][(pc = "autosave" /\ pc' # pc) =>
          \/ pc' = "fileTop" /\ disk' = data /\ data' = data
          \/ pc' = "fatal"]_vars
  /\ [](hist.unsavedFiles <= AUTOSAVE_EVERY_FILES)
  /\ [](pc = "fileTop" /\ counters.translatedFiles > 0
          /\ counters.translatedFiles % AUTOSAVE_EVERY_FILES = 0 => disk = data)

\* Ten files with items have been counted, the autosave has written the
\* snapshot, and the scan of a later file has copied a long key, been saved
\* and its batch is at the oracle.
C32_Witness ==
  /\ pc = "call"
  /\ counters.translatedFiles = AUTOSAVE_EVERY_FILES
  /\ hist.fileHadCopies
  /\ hist.callsOfFile = 0
  /\ hist.writes = 2
  /\ ~saveRejected
  /\ disk = data

\* The save of the first batch was rejected, the results of ten files are
\* in memory only, and the tenth file is being counted.
C32_UnsavedWitness ==
  /\ pc = "fileEnd"
  /\ saveRejected
  /\ counters.translatedFiles = AUTOSAVE_EVERY_FILES - 1
  /\ hist.unsavedFiles = AUTOSAVE_EVERY_FILES

\* The first part in the run with its snapshot and its batches: a scan that
\* changed the snapshot is followed by a save, and the run goes on from it
\* to the batches only when the file holds the snapshot.
C32_CopiesSavedFirst ==
  /\ [][(pc = "fileTop" /\ data' # data) => pc' = "saveCopies"]_vars
  /\ [][(pc = "saveCopies" /\ pc' # pc) =>
          \/ pc' = "afterScan" /\ disk'[outputFile(cfg)] = data /\ data' = data
          \/ pc' = "fatal"]_vars
  /\ [][(pc = "call" /\ pc' # pc /\ hist.batch.outcomes = <<>> /\ hist.startedBatches = 1) =>
          \A k \in DOMAIN data[FilePaths[fileIdx]] :
            LongKey(data[FilePaths[fileIdx]][k]) =>
              disk[outputFile(cfg)][FilePaths[fileIdx]][k] = data[FilePaths[fileIdx]][k]]_vars

\* ---------------------------------------------------------------------
\* The index built for a designated primary language, then the fill pass,
\* over the snapshots made of five rows.

PrimaryRows ==
  {[l \in Langs |-> IF l = "en" THEN TxtA ELSE TxtB],
   [l \in Langs |-> IF l = "en" THEN TxtA ELSE IF l = "ru" THEN TxtB ELSE Empty],
   [l \in Langs |-> IF l = "en" THEN TxtB ELSE IF l = "ru" THEN TxtA ELSE Empty],
   [l \in Langs |-> IF l = "en" THEN Null ELSE IF l = "ru" THEN TxtB ELSE Empty],
   [l \in Langs |-> IF l = "en" THEN TxtA ELSE IF l = "ru" THEN Null ELSE TxtB]}

InitFillPrimary ==
  /\ \E rowOf \in [Range(KeyPairs) -> PrimaryRows] : data = MkSnapshot(rowOf)
  /\ langOrder \in LangOrders
  /\ lastOp = "load"
  /\ subs = 0
  /\ passes = <<>>
  /\ written = {}
  /\ items = <<>>
  /\ limits = <<>>
  /\ batches = <<>>
  /\ tr = NoTranslator
  /\ cfg = [requiredLangs |-> <<>>, outputIsInput |-> TRUE, guarded |-> FALSE]
  /\ disk = [p \in {"in", "out"} |-> NoFile]
  /\ run = 0
  /\ pc = "off"
  /\ fileIdx = 0
  /\ batchIdx = 0
  /\ attempt = 0
  /\ interrupted = FALSE
  /\ interruptTimer = FALSE
  /\ saveRejected = FALSE
  /\ saves = <<>>
  /\ counters = <<>>
  /\ hist = [sourceLang |-> "none"]

\* buildSourceTextIndex(data, sourceLang) followed by fillGaps(data, index, log).
FillWithPrimary ==
  /\ lastOp = "load"
  /\ \E sourceLang \in Langs :
       \E index \in {buildSourceTextIndex(data, langOrder, sourceLang)} :
         \E res \in {fillGaps(data, langOrder, index)} :
           /\ data' = res.data
           /\ written' = WrittenBy(data, res.data)
           /\ subs' = res.substitutions
           /\ hist' = [sourceLang |-> sourceLang]
  /\ lastOp' = "fillGaps"
  /\ passes' = <<>>
  /\ UNCHANGED <<langOrder, saves, tr, items, limits, batches, cfg, disk, run, pc, fileIdx,
                 batchIdx, attempt, interrupted, interruptTimer, saveRejected, counters>>

NextFillPrimary == FillWithPrimary

SpecFillPrimary == InitFillPrimary /\ [][NextFillPrimary]_vars

\* The source text of a key computed with the primary language P.
SourceWith(d, ord, p, P) == getSourceText(d[p[1]][p[2]], ord[p], P)

\* The keys that have, computed with P, the source text of the key of slot s
\* and hold the language of s.
HoldersWith(d, ord, s, P) ==
  {q \in Range(KeyPairs) :
     /\ SourceWith(d, ord, q, P) # Null
     /\ SourceWith(d, ord, q, P) = SourceWith(d, ord, <<s[1], s[2]>>, P)
     /\ ~isMissing(d[q[1]][q[2]][s[3]])}

\* C33: after the index was built for a primary language P, the pass fills
\* every missing slot of a key whose source text, computed with P, is that
\* of a key holding the language of the slot.
C33_SourceTextConsistency ==
  [][lastOp' = "fillGaps" =>
       \A s \in Slots :
         (isMissing(data[s[1]][s[2]][s[3]])
            /\ HoldersWith(data, langOrder, s, hist'.sourceLang) # {})
           => ~isMissing(data'[s[1]][s[2]][s[3]])]_vars

\* The same for the primary language en, the one the pass computes its own
\* source texts with.
C33_DefaultPrimary ==
  [][(lastOp' = "fillGaps" /\ hist'.sourceLang = "en") =>
       \A s \in Slots :
         (isMissing(data[s[1]][s[2]][s[3]])
            /\ HoldersWith(data, langOrder, s, "en") # {})
           => ~isMissing(data'[s[1]][s[2]][s[3]])]_vars

\* A pass after an index built for en has filled a slot from a key of the
\* same source text.
C33_DefaultWitness ==
  /\ lastOp = "fillGaps"
  /\ hist.sourceLang = "en"
  /\ subs > 0
  /\ written # {}

\* C34: for every two consecutive batches, the earlier one with the first
\* item of the later one appended would pass the prompt limit or the
\* response limit, or the earlier one has MAX_BATCH_ITEMS items: a batch is
\* closed only when the next item cannot join it.
C34_GreedyClosing ==
  lastOp = "buildDynamicBatches" =>
    \A i \in 1..(Len(batches) - 1) :
      \/ PromptTokensOf(Append(batches[i], batches[i + 1][1])) > limits.maxPromptTokens
      \/ estimateResponseTokens(Append(batches[i], batches[i + 1][1]))
           > limits.maxResponseTokens
      \/ Len(batches[i]) >= MAX_BATCH_ITEMS

\* Two items were put in one batch and the third, which fits the response
\* limit on its own and the prompt limit with the two, opened the next
\* batch: with it the first batch would have passed the response limit.
C34_Witness ==
  /\ lastOp = "buildDynamicBatches"
  /\ Len(items) = 3
  /\ Len(batches) = 2
  /\ Len(batches[1]) = 2
  /\ estimateResponseTokens(batches[2]) <= limits.maxResponseTokens
  /\ PromptTokensOf(items) <= limits.maxPromptTokens
  /\ estimateResponseTokens(items) > limits.maxResponseTokens

\* Three items that fit all limits together are one batch.
C34_AppendedWitness ==
  /\ lastOp = "buildDynamicBatches"
  /\ Len(items) = 3
  /\ Len(batches) = 1
  /\ limits.maxPromptTokens = 220

\* C35: the step that applies an answer changes only slots that the batch
\* just sent asked for: a key of the batch and one of its targets.
C35_ApplyScope ==
  [][AnswerStep =>
       \A s \in Slots : Val(data', s) # Val(data, s) => s \in hist'.batch.sent]_vars

\* A save before save j has been rejected.
RejectedBefore(svs, j) == \E i \in 1..(j - 1) : svs[i].stage = "rejected"

\* C36: a save called after a rejected one never gets to mkdir or writeFile:
\* it waits or is rejected, and has written nothing; once a save has been
\* rejected the file does not change again, whatever is changed in memory.
C36_StickyRejection ==
  /\ [](\A j \in 1..Len(saves) :
          RejectedBefore(saves, j)
            => /\ saves[j].stage \in {"awaitPrevious", "rejected"}
               /\ saves[j].writes = 0
               /\ saves[j].content = NoFile)
  /\ [][(\E i \in 1..Len(saves) : saves[i].stage = "rejected") => disk' = disk]_vars

\* The write of the first save failed, the snapshot was changed afterwards,
\* and the two saves called later were rejected without a write: the file
\* is not the snapshot.
C36_Witness ==
  /\ Len(saves) = 3
  /\ saves[1].stage = "rejected"
  /\ saves[1].content # NoFile
  /\ saves[2].stage = "rejected"
  /\ saves[3].stage = "rejected"
  /\ saves[3].writes = 0
  /\ data # saves[1].content
  /\ disk[outputFile(cfg)] # data

\* The same in the run: after a rejected save the file is not written again
\* by that run, and the run does not end by a completed final save.
C36_RunNeverPersists ==
  /\ [][(saveRejected /\ saveRejected') => disk' = disk]_vars
  /\ [][(pc \in SavePcs /\ saveRejected /\ pc' # pc) =>
          pc' = IF pc = "saveBatch" THEN "attemptTop" ELSE "fatal"]_vars
  /\ [](saveRejected => pc # "done")

\* The save of a batch was rejected, the answer of a later call was applied
\* in memory, and the run has ended with the file lacking it.
C36_RunWitness ==
  /\ pc = "fatal"
  /\ saveRejected
  /\ Len(hist.batch.outcomes) >= 2
  /\ hist.batch.outcomes[Len(hist.batch.outcomes)] = "ok"
  /\ \E s \in hist.batch.sent :
       /\ Val(data, s) = OracleText
       /\ IF disk[outputFile(cfg)] = NoFile THEN TRUE
          ELSE Val(disk[outputFile(cfg)], s) # OracleText

\* C37: a batch sent whole makes one or two exchanges in each call of
\* translateFileBatch and at most six in all; its calls are at most three;
\* the waits before them are 0, 5000 and 15000 ms, so that a wait precedes
\* only the second and the third call and never the repeat of an exchange
\* inside a call.
C37_NestedRetryBound ==
  /\ [][(CallSettles /\ ~SplitMode(batches[batchIdx])) =>
          /\ hist'.batch.exchanges - hist.batch.exchanges \in {1, 2}
          /\ hist'.batch.exchanges <= 2 * maxRetries
          /\ Len(hist'.batch.outcomes) <= maxRetries]_vars
  /\ [][(pc = "attemptTop" /\ pc' = "backoff") => attempt \in {1, 2}]_vars
  /\ [][(pc = "attemptTop" /\ pc' = "call") => attempt = 0]_vars
  /\ [][(pc = "backoff" /\ pc' # pc) => pc' = "call"]_vars
  /\ [](hist.batch.delays = SubSeq(<<0, 5000, 15000>>, 1, Len(hist.batch.delays)))
  /\ [](Len(hist.batch.delays) \in {Len(hist.batch.outcomes), Len(hist.batch.outcomes) + 1})

\* A batch sent whole has made six exchanges: each of its three calls failed
\* twice, and the waits before the calls were 0, 5000 and 15000 ms.
C37_Witness ==
  /\ hist.batch.exchanges = 2 * maxRetries
  /\ hist.batch.outcomes = <<"fail", "fail", "fail">>
  /\ hist.batch.delays = <<0, 5000, 15000>>
  /\ hist.batch.kind = "throw"
  /\ pc = "attemptTop"
  /\ attempt = maxRetries


(***************************************************************************)
(* One run of runTranslation to its end, with an oracle and a file system  *)
(* that may fail without limit.  The run's own steps are continuations on  *)
(* the event loop of the process: a step that can be taken is taken.  An   *)
(* oracle call that returns or fails and a save that completes are among   *)
(* them.  Signals and the grace timer are the environment's and need not   *)
(* happen.                                                                 *)
(***************************************************************************)
LiveKinds == {"throw", "full", "blank"}

\* The smaller response budget, under which every item is a batch of its own.
LiveResponseTokens ==
  CHOOSE m \in ResponseTokenSettings : \A n \in ResponseTokenSettings : m <= n

\* The snapshot with a key to copy and a key to translate in one file and a
\* key to translate in the other.
LiveSnapshot ==
  MkSnapshot([p \in Range(KeyPairs) |->
                RunRows[IF p[2] = "k1" THEN "hugeEn" ELSE "missRu"]])

InitLive ==
  /\ Init
  /\ disk[inPath] = LiveSnapshot
  /\ limits = configLimits(LiveResponseTokens)
  /\ cfg.guarded
  /\ ~cfg.outputIsInput

OracleSettles == OracleReturnsOf(LiveKinds, FALSE)

SaveEnds == SaveSettles(FALSE)

RunStep ==
  \/ Load
  \/ FileTop
  \/ AfterScan
  \/ BatchTop
  \/ AttemptTop
  \/ BackoffElapsed
  \/ OracleSettles
  \/ SaveEnds
  \/ FileEnd

NextLive ==
  \/ RunStep
  \/ Signal
  \/ TimerExpires

SpecLive == InitLive /\ [][NextLive]_vars /\ WF_vars(RunStep)

RunEnded == pc \in {"done", "fatal"}

\* C38: provided every oracle call returns or fails and every save
\* completes, a run ends whatever the oracle answers, an oracle that always
\* fails or always answers with empty or blank values included: each file
\* is visited once, each batch gets at most maxRetries attempts, and a slot
\* is sent to the oracle in one batch of the run only, so a slot left
\* unfilled is not queued again in the same run.
C38_Termination ==
  /\ <>RunEnded
  /\ [](hist.scannedFiles <= Len(FilePaths))
  /\ [][fileIdx' # fileIdx => fileIdx' = fileIdx + 1]_vars
  /\ [](attempt <= maxRetries /\ Len(hist.batch.outcomes) <= maxRetries)
  /\ [][(pc = "attemptTop" /\ pc' \in {"backoff", "call"} /\ attempt = 0)
          => \A i \in 1..Len(batches[batchIdx]) :
               \A t \in Range(batches[batchIdx][i].targets) :
                 <<batches[batchIdx][i].fileName, batches[batchIdx][i].key, t>>
                   \notin hist.requested]_vars

\* A run that ended although every batch of it failed all its attempts and
\* slots of it are still unfilled.
C38_Witness ==
  /\ pc = "done"
  /\ ~interrupted
  /\ counters.failedBatches >= 2
  /\ counters.failedBatches = hist.startedBatches
  /\ counters.totalApplied = 0
  /\ \E s \in hist.requested : isSlotFillable(Val(data, s))

====
